---------------------------- MODULE Spec2Model ----------------------------
(***************************************************************************)
(* A model of the file-organization MCP server (src/utils.py,              *)
(* src/tools.py, src/server.py): the sandboxed path validation, the depth  *)
(* and naming checks, the dry-run gate and the mutating tools built on     *)
(* them.                                                                   *)
(*                                                                         *)
(* Representation.                                                         *)
(*   - A Python str is a sequence of one-character strings.                *)
(*   - A pathlib.Path is the sequence of its parts after the root "/"      *)
(*     (POSIX flavour); a part may be ".." until resolve() collapses it.   *)
(*   - The filesystem is a function from the canonical paths that exist    *)
(*     to their entry [kind, mdate, cdate].  There are no symbolic links,  *)
(*     no permissions and no other process (an entry changes only when a   *)
(*     tool changes it).                                                   *)
(*   - A tool is an operator of the process state S = [fs, env_root,       *)
(*     dry_run] and its arguments that yields [report, fs]: the report it  *)
(*     returns (a code and the values its text is formatted from) and the  *)
(*     filesystem it leaves.                                               *)
(***************************************************************************)
EXTENDS Integers, Sequences, FiniteSets, TLC

VARIABLES
    fs,         \* the filesystem
    env_root,   \* os.environ["MCP_FILE_AGENT_ROOT"], <<>> when not set
    dry_run,    \* config.dry_run
    requested,  \* history: the argument of the latest set_dry_run (TRUE if none)
    last,       \* history: the latest tool call and what it did
    nchanges,   \* history: how many calls changed the filesystem
    run         \* the call a thread is in the middle of, when calls are
                \* followed step by step (StepSpec); Idle otherwise

vars == <<fs, env_root, dry_run, requested, last, nchanges, run>>

(***************************************************************************)
(* Strings                                                                 *)
(***************************************************************************)
SEP == "/"

DOT == <<".">>

DOTDOT == <<".", ".">>

EmptyStr == <<>>

\* The null character, which no path of the operating system may hold.
NulChar == "NUL"

\* Path(s).resolve() of such a string raises ValueError("embedded null byte").
HasNul(s) == \E i \in 1..Len(s) : s[i] = NulChar

\* str.startswith
StartsWith(s, prefix) ==
    /\ Len(prefix) <= Len(s)
    /\ SubSeq(s, 1, Len(prefix)) = prefix

UpperChars == <<"A","B","C","D","E","F","G","H","I","J","K","L","M",
                "N","O","P","Q","R","S","T","U","V","W","X","Y","Z">>

LowerChars == <<"a","b","c","d","e","f","g","h","i","j","k","l","m",
                "n","o","p","q","r","s","t","u","v","w","x","y","z">>

\* c.lower() of one character
LowerOf == [k \in 1..Len(UpperChars) |-> LowerChars[k]]

UpperSet == {UpperChars[k] : k \in 1..Len(UpperChars)}

\* str.lower
lower(s) ==
    [i \in 1..Len(s) |->
        IF s[i] \in UpperSet
        THEN LowerOf[CHOOSE k \in 1..Len(UpperChars) : UpperChars[k] = s[i]]
        ELSE s[i]]

Digits == {"0","1","2","3","4","5","6","7","8","9"}

RECURSIVE SplitFrom(_, _, _)
\* s.split("/") from position i on, cur being the piece read so far
SplitFrom(s, i, cur) ==
    IF i > Len(s) THEN <<cur>>
    ELSE IF s[i] = SEP THEN <<cur>> \o SplitFrom(s, i + 1, <<>>)
    ELSE SplitFrom(s, i + 1, Append(cur, s[i]))

(***************************************************************************)
(* pathlib                                                                 *)
(***************************************************************************)
\* The working directory of the server process.
Cwd == <<>>

IsAbsolute(s) == Len(s) > 0 /\ s[1] = SEP

\* The parts of a path string: pathlib drops empty pieces and "." pieces.
Parts(s) == SelectSeq(SplitFrom(s, 1, <<>>), LAMBDA c : c # EmptyStr /\ c # DOT)

\* Path(s), made absolute the way every use of it is (against Cwd).
Path(s) == IF IsAbsolute(s) THEN Parts(s) ELSE Cwd \o Parts(s)

\* P / s : an absolute s replaces P.
PathJoin(P, s) == IF IsAbsolute(s) THEN Parts(s) ELSE P \o Parts(s)

RECURSIVE Collapse(_, _)
Collapse(parts, acc) ==
    IF parts = <<>> THEN acc
    ELSE IF Head(parts) = DOTDOT
         THEN Collapse(Tail(parts),
                       IF acc = <<>> THEN <<>> ELSE SubSeq(acc, 1, Len(acc) - 1))
         ELSE Collapse(Tail(parts), Append(acc, Head(parts)))

\* Path.resolve(): ".." collapsed (there are no symbolic links to follow).
resolve(P) == Collapse(P, <<>>)

RECURSIVE PathStrFrom(_, _)
PathStrFrom(P, i) ==
    IF i > Len(P) THEN <<>> ELSE <<SEP>> \o P[i] \o PathStrFrom(P, i + 1)

\* str(P)
PathStr(P) == IF P = <<>> THEN <<SEP>> ELSE PathStrFrom(P, 1)

\* P.name
PathName(P) == IF P = <<>> THEN EmptyStr ELSE P[Len(P)]

\* P.parent
PathParent(P) == IF P = <<>> THEN <<>> ELSE SubSeq(P, 1, Len(P) - 1)

\* The value of a failed lookup, of None where a Path is expected, and of a
\* ValueError of relative_to: no path has an empty part.
None == << EmptyStr >>

\* P.relative_to(root): the parts after root, a ValueError unless root's parts
\* are the first parts of P.
relative_to(P, root) ==
    IF Len(root) <= Len(P) /\ SubSeq(P, 1, Len(root)) = root
    THEN SubSeq(P, Len(root) + 1, Len(P))
    ELSE None

(***************************************************************************)
(* The filesystem as the operating system answers for it                   *)
(***************************************************************************)
RECURSIVE Walk(_, _, _)
\* The kernel's lookup of the parts left from the directory `at`: the entry's
\* canonical path, None when a part is missing or a directory is needed and
\* the entry is none.
Walk(F, parts, at) ==
    IF at \notin DOMAIN F THEN None
    ELSE IF parts = <<>> THEN at
    ELSE IF F[at].kind # "dir" THEN None
    ELSE Walk(F, Tail(parts),
              IF Head(parts) = DOTDOT THEN PathParent(at) ELSE Append(at, Head(parts)))

Lookup(F, P) == Walk(F, P, <<>>)

\* P.exists()
exists(F, P) == Lookup(F, P) # None

\* P.is_file()
is_file(F, P) == exists(F, P) /\ F[Lookup(F, P)].kind = "file"

\* P.is_dir()
is_dir(F, P) == exists(F, P) /\ F[Lookup(F, P)].kind = "dir"

(***************************************************************************)
(* utils.py: the path policy                                               *)
(***************************************************************************)
FORBIDDEN_PATHS == <<
    <<"W","i","n","d","o","w","s">>,
    <<"P","r","o","g","r","a","m"," ","F","i","l","e","s">>,
    <<"P","r","o","g","r","a","m"," ","F","i","l","e","s"," ","(","x","8","6",")">>,
    <<"P","r","o","g","r","a","m","D","a","t","a">>,
    <<"S","y","s","t","e","m","3","2">>,
    <<"S","y","s","W","O","W","6","4">>,
    <<"$","R","e","c","y","c","l","e",".","B","i","n">>,
    <<"R","e","c","o","v","e","r","y">>,
    <<".","g","i","t">>,
    <<".","s","v","n">>,
    <<"_","_","p","y","c","a","c","h","e","_","_">>,
    <<"n","o","d","e","_","m","o","d","u","l","e","s">> >>

\* The raw strings keep both backslashes.
FORBIDDEN_DRIVE_PATHS == <<
    <<"C",":","\\","\\","W","i","n","d","o","w","s">>,
    <<"C",":","\\","\\","P","r","o","g","r","a","m"," ","F","i","l","e","s">>,
    <<"C",":","\\","\\","P","r","o","g","r","a","m"," ","F","i","l","e","s"," ","(","x","8","6",")">>,
    <<"C",":","\\","\\","P","r","o","g","r","a","m","D","a","t","a">> >>

\* forbidden.lower() of each drive path
LoweredDrivePaths ==
    [i \in 1..Len(FORBIDDEN_DRIVE_PATHS) |-> lower(FORBIDDEN_DRIVE_PATHS[i])]

ForbiddenNames == {FORBIDDEN_PATHS[i] : i \in 1..Len(FORBIDDEN_PATHS)}

\* get_target_root(): None when the variable is missing or empty.
get_target_root(S) ==
    IF S.env_root = EmptyStr THEN None ELSE resolve(Path(S.env_root))

\* is_path_in_sandbox(path, root): a comparison of the two strings.
is_path_in_sandbox(path, root) ==
    StartsWith(PathStr(resolve(path)), PathStr(resolve(root)))

\* is_forbidden_path(path): (forbidden, the rule that forbids it)
is_forbidden_path(path) ==
    LET path_str == PathStr(resolve(path))
        lowered == lower(path_str)
        drive == {i \in 1..Len(FORBIDDEN_DRIVE_PATHS) :
                     StartsWith(lowered, LoweredDrivePaths[i])}
        named == {i \in 1..Len(path) : path[i] \in ForbiddenNames}
    IN  IF drive # {}
        THEN [is_forbidden |-> TRUE,
              reason |-> FORBIDDEN_DRIVE_PATHS[CHOOSE i \in drive : \A j \in drive : i <= j]]
        ELSE IF named # {}
        THEN [is_forbidden |-> TRUE,
              reason |-> path[CHOOSE i \in named : \A j \in named : i <= j]]
        ELSE [is_forbidden |-> FALSE, reason |-> EmptyStr]

Invalid(error) == [is_valid |-> FALSE, error_message |-> error, resolved_path |-> None]

\* validate_path with the test of existence made first.
validate_path_existence_first(S, path, must_exist) ==
    LET resolved == resolve(Path(path))
        forbidden == is_forbidden_path(resolved)
        root == get_target_root(S)
    IN  IF HasNul(path) THEN Invalid("ValidationError")
        ELSE IF must_exist /\ ~exists(S.fs, resolved) THEN Invalid("NotFound")
        ELSE IF forbidden.is_forbidden THEN Invalid("Forbidden")
        ELSE IF root # None /\ ~is_path_in_sandbox(resolved, root)
        THEN Invalid("OutsideSandbox")
        ELSE [is_valid |-> TRUE, error_message |-> "", resolved_path |-> resolved]

\* validate_path(path, must_exist); an exception of its body is an invalid
\* result.
validate_path(S, path, must_exist) ==
    LET resolved == resolve(Path(path))
        forbidden == is_forbidden_path(resolved)
        root == get_target_root(S)
    IN  IF HasNul(path) THEN Invalid("ValidationError")
        ELSE IF forbidden.is_forbidden THEN Invalid("Forbidden")
        ELSE IF root # None /\ ~is_path_in_sandbox(resolved, root)
        THEN Invalid("OutsideSandbox")
        ELSE IF must_exist /\ ~exists(S.fs, resolved) THEN Invalid("NotFound")
        ELSE [is_valid |-> TRUE, error_message |-> "", resolved_path |-> resolved]

\* The default of check_directory_depth's max_depth, which no caller overrides.
MaxDepthDefault == 5

\* check_directory_depth with the limit itself counted as too deep.
check_directory_depth_strict(S, path) ==
    LET root == get_target_root(S)
        relative == relative_to(resolve(path), root)
    IN  IF root = None \/ relative = None THEN [ok |-> TRUE, depth |-> 0]
        ELSE [ok |-> Len(relative) < MaxDepthDefault, depth |-> Len(relative)]

\* check_directory_depth(path): (within the limit, depth)
check_directory_depth(S, path) ==
    LET root == get_target_root(S)
    IN  IF root = None THEN [ok |-> TRUE, depth |-> 0]
        ELSE LET relative == relative_to(resolve(path), root)
             IN  IF relative = None THEN [ok |-> TRUE, depth |-> 0]
                 ELSE [ok |-> Len(relative) <= MaxDepthDefault, depth |-> Len(relative)]


(***************************************************************************)
(* utils.py: names and dates                                               *)
(***************************************************************************)
\* illegal_chars = r'<>:"/\|?*'
IllegalChars == {"<", ">", ":", "\"", "/", "\\", "|", "?", "*"}

StripChars == {" ", "."}

RECURSIVE lstrip(_)
lstrip(s) == IF s # <<>> /\ Head(s) \in StripChars THEN lstrip(Tail(s)) ELSE s

RECURSIVE rstrip(_)
rstrip(s) ==
    IF s # <<>> /\ s[Len(s)] \in StripChars THEN rstrip(SubSeq(s, 1, Len(s) - 1)) ELSE s

Unnamed == <<"u","n","n","a","m","e","d">>

\* sanitize_filename without the strip of spaces and dots.
sanitize_filename_no_strip(filename) ==
    LET replaced == [i \in 1..Len(filename) |->
                        IF filename[i] \in IllegalChars THEN "_" ELSE filename[i]]
    IN  IF replaced = EmptyStr THEN Unnamed ELSE replaced

\* sanitize_filename(filename)
sanitize_filename(filename) ==
    LET replaced == [i \in 1..Len(filename) |->
                        IF filename[i] \in IllegalChars THEN "_" ELSE filename[i]]
        stripped == rstrip(lstrip(replaced))
    IN  IF stripped = EmptyStr THEN Unnamed ELSE stripped

\* re.match(r'^(\d{2})_(.+)$', name): "." is any character but a newline, "$"
\* the end of the string or the place before a newline that ends it.
MatchesFolderPattern(name) ==
    /\ Len(name) >= 4
    /\ name[1] \in Digits
    /\ name[2] \in Digits
    /\ name[3] = "_"
    /\ name[4] # "\n"
    /\ \A i \in 4..Len(name) : name[i] = "\n" => i = Len(name)

\* validate_folder_naming(name): (valid, message); the number of a match is
\* int() of two digits, never outside 0..99.
validate_folder_naming(name) ==
    IF ~MatchesFolderPattern(name) THEN [ok |-> FALSE, message |-> "format"]
    ELSE [ok |-> TRUE, message |-> ""]

\* The naming_msg of a report.
naming_msg(naming) == IF naming.ok THEN "" ELSE naming.message

\* re.match(r"^\d{6}_", name)
MatchesDatePattern(name) ==
    /\ Len(name) >= 7
    /\ \A i \in 1..6 : name[i] \in Digits
    /\ name[7] = "_"

\* get_file_dates(path): the '%y%m%d' strings of the entry's timestamps.
get_file_dates(F, P) ==
    [modified_str |-> F[Lookup(F, P)].mdate, created_str |-> F[Lookup(F, P)].cdate]

\* name.rfind('.'), 0 when there is no dot (Python's -1).
RFindDot(name) ==
    LET dots == {i \in 1..Len(name) : name[i] = "."}
    IN  IF dots = {} THEN 0 ELSE CHOOSE i \in dots : \A j \in dots : j <= i

\* P.suffix for P.name = name: from the last dot, unless it starts or ends the name.
Suffix(name) ==
    LET i == RFindDot(name)
    IN  IF 1 < i /\ i < Len(name) THEN SubSeq(name, i, Len(name)) ELSE EmptyStr

\* P.stem for P.name = name
Stem(name) ==
    LET i == RFindDot(name)
    IN  IF 1 < i /\ i < Len(name) THEN SubSeq(name, 1, i - 1) ELSE name

(***************************************************************************)
(* The operating system's mutations (POSIX)                                *)
(***************************************************************************)
\* The date a new entry is stamped with.
Today == <<"2","6","0","1","0","1">>

\* P is Q or lies below it, part by part.
Under(P, Q) == Len(Q) <= Len(P) /\ SubSeq(P, 1, Len(Q)) = Q

\* The filesystem after the entry at s (with all below it) became the entry at d.
Rekey(F, s, d) ==
    LET moved == {p \in DOMAIN F : Under(p, s)}
        gone  == {p \in DOMAIN F : Under(p, d)}
        to(p) == d \o SubSeq(p, Len(s) + 1, Len(p))
        back(q) == s \o SubSeq(q, Len(d) + 1, Len(q))
        dom == ((DOMAIN F \ moved) \ gone) \cup {to(p) : p \in moved}
    IN  [q \in dom |-> IF Under(q, d) THEN F[back(q)] ELSE F[q]]

\* os.rename(src, dst), rename(2): [ok, errno, fs].  The destination's
\* directory must exist; an existing destination is replaced when both are
\* files or when it is an empty directory and the source a directory.
os_rename(F, src, dst) ==
    LET s == Lookup(F, src)
        dparent == Lookup(F, PathParent(dst))
        d == Append(dparent, PathName(dst))
        fail(errno) == [ok |-> FALSE, errno |-> errno, fs |-> F]
    IN  IF s = None THEN fail("ENOENT")
        ELSE IF s = <<>> \/ dst = <<>> \/ PathName(dst) = DOTDOT THEN fail("EBUSY")
        ELSE IF dparent = None
        THEN fail(IF \E k \in 1..Len(dst) - 1 : is_file(F, SubSeq(dst, 1, k))
                  THEN "ENOTDIR" ELSE "ENOENT")
        ELSE IF F[dparent].kind # "dir" THEN fail("ENOTDIR")
        ELSE IF s = d THEN [ok |-> TRUE, errno |-> "", fs |-> F]
        ELSE IF Under(d, s) THEN fail("EINVAL")
        ELSE IF d \in DOMAIN F /\ F[d].kind = "dir" /\ F[s].kind = "file"
        THEN fail("EISDIR")
        ELSE IF d \in DOMAIN F /\ F[d].kind = "file" /\ F[s].kind = "dir"
        THEN fail("ENOTDIR")
        ELSE IF d \in DOMAIN F /\ F[d].kind = "dir"
                /\ \E p \in DOMAIN F : p # d /\ Under(p, d) THEN fail("ENOTEMPTY")
        ELSE [ok |-> TRUE, errno |-> "", fs |-> Rekey(F, s, d)]

\* shutil.move(src, dst) of a regular file: into dst when dst is a directory
\* (an error if the name is taken there), else os.rename, whose failure the
\* copy that is tried next repeats.
shutil_move(F, src, dst) ==
    LET real_dst == IF is_dir(F, dst) THEN Append(dst, PathName(src)) ELSE dst
    IN  IF is_dir(F, dst) /\ exists(F, real_dst)
        THEN [ok |-> FALSE, errno |-> "EEXIST", fs |-> F]
        ELSE os_rename(F, src, real_dst)

\* P.mkdir(parents=False, exist_ok=False): [ok, errno, fs]
mkdir(F, P) ==
    LET dparent == Lookup(F, PathParent(P))
        d == Append(dparent, PathName(P))
    IN  IF exists(F, P) \/ P = <<>> THEN [ok |-> FALSE, errno |-> "EEXIST", fs |-> F]
        ELSE IF dparent = None
        THEN [ok |-> FALSE,
              errno |-> IF \E k \in 1..Len(P) - 1 : is_file(F, SubSeq(P, 1, k))
                        THEN "ENOTDIR" ELSE "ENOENT",
              fs |-> F]
        ELSE IF F[dparent].kind # "dir" THEN [ok |-> FALSE, errno |-> "ENOTDIR", fs |-> F]
        ELSE [ok |-> TRUE, errno |-> "",
              fs |-> [e \in DOMAIN F \cup {d} |->
                        IF e = d THEN [kind |-> "dir", mdate |-> Today, cdate |-> Today]
                        ELSE F[e]]]

\* target.iterdir(): the entries directly in the directory.
iterdir(F, P) == {q \in DOMAIN F : q # <<>> /\ PathParent(q) = P}

(***************************************************************************)
(* tools.py: configuration                                                 *)
(***************************************************************************)
\* ToolConfig(): the defaults of the global config.
ToolConfig == [dry_run |-> TRUE, max_depth |-> 5]

\* A report: the branch that returned it (code), the validation error it
\* carries (error) and the values its text is formatted from (detail).
Report(code, error, detail) == [code |-> code, error |-> error, detail |-> detail]

\* A call that ends with an exception instead of a report.
Raised(exception) == Report("Raised", exception, <<>>)

\* A tool's return without a change of the filesystem.
Return(S, code, error, detail) == [report |-> Report(code, error, detail), fs |-> S.fs]

\* set_dry_run storing the opposite of its argument.
set_dry_run_inverted(enabled) == ~enabled

\* set_dry_run(enabled): the value config.dry_run takes.
set_dry_run(enabled) == enabled

\* set_target_root(path): [ok, env], env the environment variable afterwards.
set_target_root(S, path) ==
    LET resolved == resolve(Path(path))
    IN  IF exists(S.fs, resolved) /\ is_dir(S.fs, resolved)
        THEN [ok |-> TRUE, env |-> PathStr(resolved)]
        ELSE [ok |-> FALSE, env |-> S.env_root]

\* configure_workspace(root_path): [report, env]
configure_workspace(S, root_path) ==
    LET path == Path(root_path)
        set == set_target_root(S, root_path)
    IN  IF ~exists(S.fs, path)
        THEN [report |-> Report("NotFound", "", <<root_path>>), env |-> S.env_root]
        ELSE IF ~is_dir(S.fs, path)
        THEN [report |-> Report("NotADirectory", "", <<root_path>>), env |-> S.env_root]
        ELSE IF set.ok
        THEN [report |-> Report("OK", "", <<resolve(path)>>), env |-> set.env]
        ELSE [report |-> Report("ConfigFailed", "", <<root_path>>), env |-> set.env]

(***************************************************************************)
(* tools.py: a read-only tool                                              *)
(***************************************************************************)
\* list_directory(path, show_hidden)
list_directory(S, path, show_hidden) ==
    LET validation == validate_path(S, path, TRUE)
        target == validation.resolved_path
        items == {q \in iterdir(S.fs, target) : show_hidden \/ Head(PathName(q)) # "."}
        depth == check_directory_depth(S, target)
    IN  IF ~validation.is_valid THEN Return(S, "PathError", validation.error_message, <<>>)
        ELSE IF ~is_dir(S.fs, target) THEN Return(S, "NotADirectory", "", <<path>>)
        ELSE Return(S, "Listing", "",
                    <<target, depth.depth, depth.ok,
                      {PathName(q) : q \in {i \in items : is_dir(S.fs, i)}},
                      {PathName(q) : q \in {i \in items : is_file(S.fs, i)}}>>)

(***************************************************************************)
(* tools.py: the mutating tools.  Each is written as the code is: its      *)
(* checks in their order (the first that fails returns its report), the    *)
(* dry-run branch, the execution.                                          *)
(***************************************************************************)
\* No check failed.
Pass == Report("pass", "", <<>>)

\* A report that changes nothing.
Unchanged(S, report) == [report |-> report, fs |-> S.fs]

\* The first n items of a list: items[:n]
First(items, n) == SubSeq(items, 1, IF Len(items) < n THEN Len(items) ELSE n)

\* dest_path without the source's name joined to a directory.
move_file_dest_path_as_given(S, source, destination) == resolve(Path(destination))

\* move_file: dest_path, the destination as a file path.
move_file_dest_path(S, source, destination) ==
    LET src_path == resolve(Path(source))
        dest_given == resolve(Path(destination))
    IN  IF exists(S.fs, dest_given) /\ is_dir(S.fs, dest_given)
        THEN PathJoin(dest_given, PathName(src_path))
        ELSE dest_given

\* move_file's checks without the test for an existing destination.
move_file_checks_no_collision(S, source, destination) ==
    LET src_validation == validate_path(S, source, TRUE)
        src_path == src_validation.resolved_path
        dest_given == resolve(Path(destination))
        into_dir == exists(S.fs, dest_given) /\ is_dir(S.fs, dest_given)
        dest_path == move_file_dest_path(S, source, destination)
        parent_validation == validate_path(S, PathStr(PathParent(dest_path)), TRUE)
        dest_validation == validate_path(S, PathStr(dest_path), FALSE)
        depth == check_directory_depth(S, PathParent(dest_path))
    IN  IF ~src_validation.is_valid
        THEN Report("SourceError", src_validation.error_message, <<>>)
        ELSE IF ~is_file(S.fs, src_path) THEN Report("NotAFile", "", <<source>>)
        ELSE IF HasNul(destination) THEN Raised("ValueError")
        ELSE IF ~into_dir /\ ~parent_validation.is_valid
        THEN Report("DestDirError", parent_validation.error_message, <<>>)
        ELSE IF ~dest_validation.is_valid
        THEN Report("DestError", dest_validation.error_message, <<>>)
        ELSE IF ~depth.ok
        THEN Report("DepthExceeded", "", <<ToolConfig.max_depth, depth.depth>>)
        ELSE Pass

\* move_file: the checks before the dry-run branch.
move_file_checks(S, source, destination) ==
    LET src_validation == validate_path(S, source, TRUE)
        src_path == src_validation.resolved_path
        dest_given == resolve(Path(destination))
        into_dir == exists(S.fs, dest_given) /\ is_dir(S.fs, dest_given)
        dest_path == move_file_dest_path(S, source, destination)
        parent_validation == validate_path(S, PathStr(PathParent(dest_path)), TRUE)
        dest_validation == validate_path(S, PathStr(dest_path), FALSE)
        depth == check_directory_depth(S, PathParent(dest_path))
    IN  IF ~src_validation.is_valid
        THEN Report("SourceError", src_validation.error_message, <<>>)
        ELSE IF ~is_file(S.fs, src_path) THEN Report("NotAFile", "", <<source>>)
        ELSE IF HasNul(destination) THEN Raised("ValueError")
        ELSE IF ~into_dir /\ ~parent_validation.is_valid
        THEN Report("DestDirError", parent_validation.error_message, <<>>)
        ELSE IF ~dest_validation.is_valid
        THEN Report("DestError", dest_validation.error_message, <<>>)
        ELSE IF exists(S.fs, dest_path) THEN Report("AlreadyExists", "", <<dest_path>>)
        ELSE IF ~depth.ok
        THEN Report("DepthExceeded", "", <<ToolConfig.max_depth, depth.depth>>)
        ELSE Pass

\* move_file(source, destination)
move_file(S, source, destination) ==
    LET checked == move_file_checks(S, source, destination)
        src_path == resolve(Path(source))
        dest_path == move_file_dest_path(S, source, destination)
        moved == shutil_move(S.fs, src_path, dest_path)
    IN  IF checked # Pass THEN Unchanged(S, checked)
        ELSE IF S.dry_run
        THEN Unchanged(S, Report("DryRunOK", "", <<src_path, dest_path>>))
        ELSE IF moved.ok
        THEN [report |-> Report("OK", "", <<src_path, dest_path>>), fs |-> moved.fs]
        ELSE Unchanged(S, Report("MoveError", moved.errno, <<>>))

\* "폴더" / "파일"
item_type(F, P) == IF is_dir(F, P) THEN "folder" ELSE "file"

\* rename_file: the checks before the dry-run branch.
rename_file_checks(S, path, new_name) ==
    LET validation == validate_path(S, path, TRUE)
        target == validation.resolved_path
        name == sanitize_filename(new_name)
        new_path == PathJoin(PathParent(target), name)
        new_validation == validate_path(S, PathStr(new_path), FALSE)
    IN  IF ~validation.is_valid THEN Report("PathError", validation.error_message, <<>>)
        ELSE IF \E i \in 1..Len(name) : name[i] \in {"/", "\\"}
        THEN Report("InvalidName", "", <<>>)
        ELSE IF ~new_validation.is_valid
        THEN Report("DestError", new_validation.error_message, <<>>)
        ELSE IF exists(S.fs, new_path) THEN Report("AlreadyExists", "", <<name>>)
        ELSE Pass

\* rename_file without the dry-run branch.
rename_file_ungated(S, path, new_name) ==
    LET checked == rename_file_checks(S, path, new_name)
        target == resolve(Path(path))
        name == sanitize_filename(new_name)
        new_path == PathJoin(PathParent(target), name)
        naming == IF is_dir(S.fs, target) THEN validate_folder_naming(name)
                  ELSE [ok |-> TRUE, message |-> ""]
        renamed == os_rename(S.fs, target, new_path)
    IN  IF checked # Pass THEN Unchanged(S, checked)
        ELSE IF renamed.ok
        THEN [report |-> Report("OK", "",
                                <<item_type(renamed.fs, new_path), PathName(target),
                                  name, naming_msg(naming)>>),
              fs |-> renamed.fs]
        ELSE Unchanged(S, Report("RenameError", renamed.errno, <<>>))

\* rename_file with the new name joined as given: not cleaned, and not tested
\* for a separator.
rename_file_raw_name(S, path, new_name) ==
    LET validation == validate_path(S, path, TRUE)
        target == validation.resolved_path
        new_path == resolve(PathJoin(PathParent(target), new_name))
        new_validation == validate_path(S, PathStr(new_path), FALSE)
        renamed == os_rename(S.fs, target, new_path)
    IN  IF ~validation.is_valid
        THEN Unchanged(S, Report("PathError", validation.error_message, <<>>))
        ELSE IF ~new_validation.is_valid
        THEN Unchanged(S, Report("DestError", new_validation.error_message, <<>>))
        ELSE IF exists(S.fs, new_path)
        THEN Unchanged(S, Report("AlreadyExists", "", <<new_name>>))
        ELSE IF S.dry_run
        THEN Unchanged(S, Report("DryRunOK", "",
                                 <<item_type(S.fs, target), PathName(target), new_name,
                                   PathParent(target), "">>))
        ELSE IF renamed.ok
        THEN [report |-> Report("OK", "",
                                <<item_type(renamed.fs, new_path), PathName(target),
                                  new_name, "">>),
              fs |-> renamed.fs]
        ELSE Unchanged(S, Report("RenameError", renamed.errno, <<>>))

\* rename_file(path, new_name)
rename_file(S, path, new_name) ==
    LET checked == rename_file_checks(S, path, new_name)
        target == resolve(Path(path))
        name == sanitize_filename(new_name)
        new_path == PathJoin(PathParent(target), name)
        naming == IF is_dir(S.fs, target) THEN validate_folder_naming(name)
                  ELSE [ok |-> TRUE, message |-> ""]
        renamed == os_rename(S.fs, target, new_path)
    IN  IF checked # Pass THEN Unchanged(S, checked)
        ELSE IF S.dry_run
        THEN Unchanged(S, Report("DryRunOK", "",
                                 <<item_type(S.fs, target), PathName(target), name,
                                   PathParent(target), naming_msg(naming)>>))
        ELSE IF renamed.ok
        THEN [report |-> Report("OK", "",
                                <<item_type(renamed.fs, new_path), PathName(target),
                                  name, naming_msg(naming)>>),
              fs |-> renamed.fs]
        ELSE Unchanged(S, Report("RenameError", renamed.errno, <<>>))

\* create_folder: folder_path; name = "" stands for None, "if name" fails for both.
create_folder_path(path, name) ==
    resolve(IF name # EmptyStr THEN PathJoin(Path(path), name) ELSE Path(path))

\* create_folder's checks with the depth taken of the parent, not the folder.
create_folder_checks_parent_depth(S, path, name) ==
    LET folder_path == create_folder_path(path, name)
        parent_validation == validate_path(S, PathStr(PathParent(folder_path)), TRUE)
        folder_validation == validate_path(S, PathStr(folder_path), FALSE)
        depth == check_directory_depth(S, PathParent(folder_path))
    IN  IF HasNul(path) \/ HasNul(name) THEN Raised("ValueError")
        ELSE IF ~parent_validation.is_valid
        THEN Report("ParentError", parent_validation.error_message, <<>>)
        ELSE IF ~folder_validation.is_valid
        THEN Report("PathError", folder_validation.error_message, <<>>)
        ELSE IF exists(S.fs, folder_path) THEN Report("AlreadyExists", "", <<folder_path>>)
        ELSE IF ~depth.ok
        THEN Report("DepthExceeded", "", <<ToolConfig.max_depth, depth.depth>>)
        ELSE Pass

\* create_folder's checks with a name outside the NN_name convention refused.
create_folder_checks_naming_blocks(S, path, name) ==
    LET folder_path == create_folder_path(path, name)
        parent_validation == validate_path(S, PathStr(PathParent(folder_path)), TRUE)
        folder_validation == validate_path(S, PathStr(folder_path), FALSE)
        depth == check_directory_depth(S, folder_path)
    IN  IF HasNul(path) \/ HasNul(name) THEN Raised("ValueError")
        ELSE IF ~parent_validation.is_valid
        THEN Report("ParentError", parent_validation.error_message, <<>>)
        ELSE IF ~folder_validation.is_valid
        THEN Report("PathError", folder_validation.error_message, <<>>)
        ELSE IF exists(S.fs, folder_path) THEN Report("AlreadyExists", "", <<folder_path>>)
        ELSE IF ~depth.ok
        THEN Report("DepthExceeded", "", <<ToolConfig.max_depth, depth.depth>>)
        ELSE IF ~validate_folder_naming(PathName(folder_path)).ok
        THEN Report("InvalidName", "", <<>>)
        ELSE Pass

\* create_folder: the checks before the dry-run branch.
create_folder_checks(S, path, name) ==
    LET folder_path == create_folder_path(path, name)
        parent_validation == validate_path(S, PathStr(PathParent(folder_path)), TRUE)
        folder_validation == validate_path(S, PathStr(folder_path), FALSE)
        depth == check_directory_depth(S, folder_path)
    IN  IF HasNul(path) \/ HasNul(name) THEN Raised("ValueError")
        ELSE IF ~parent_validation.is_valid
        THEN Report("ParentError", parent_validation.error_message, <<>>)
        ELSE IF ~folder_validation.is_valid
        THEN Report("PathError", folder_validation.error_message, <<>>)
        ELSE IF exists(S.fs, folder_path) THEN Report("AlreadyExists", "", <<folder_path>>)
        ELSE IF ~depth.ok
        THEN Report("DepthExceeded", "", <<ToolConfig.max_depth, depth.depth>>)
        ELSE Pass

\* create_folder without the dry-run branch.
create_folder_ungated(S, path, name) ==
    LET checked == create_folder_checks(S, path, name)
        folder_path == create_folder_path(path, name)
        depth == check_directory_depth(S, folder_path)
        naming == validate_folder_naming(PathName(folder_path))
        made == mkdir(S.fs, folder_path)
        detail == <<folder_path, depth.depth, ToolConfig.max_depth, naming_msg(naming)>>
    IN  IF checked # Pass THEN Unchanged(S, checked)
        ELSE IF made.ok THEN [report |-> Report("OK", "", detail), fs |-> made.fs]
        ELSE IF made.errno = "EEXIST" THEN Unchanged(S, Report("FolderExists", "EEXIST", <<>>))
        ELSE Unchanged(S, Report("CreateError", made.errno, <<>>))

\* create_folder with the parent unchecked and made along with the folder.
create_folder_parents(S, path, name) ==
    LET folder_path == create_folder_path(path, name)
        folder_validation == validate_path(S, PathStr(folder_path), FALSE)
        depth == check_directory_depth(S, folder_path)
        naming == validate_folder_naming(PathName(folder_path))
        detail == <<folder_path, depth.depth, ToolConfig.max_depth, naming_msg(naming)>>
        made == {SubSeq(folder_path, 1, k) : k \in 1..Len(folder_path)} \ DOMAIN S.fs
    IN  IF HasNul(path) \/ HasNul(name) THEN Unchanged(S, Raised("ValueError"))
        ELSE IF ~folder_validation.is_valid
        THEN Unchanged(S, Report("PathError", folder_validation.error_message, <<>>))
        ELSE IF exists(S.fs, folder_path)
        THEN Unchanged(S, Report("AlreadyExists", "", <<folder_path>>))
        ELSE IF ~depth.ok
        THEN Unchanged(S, Report("DepthExceeded", "", <<ToolConfig.max_depth, depth.depth>>))
        ELSE IF S.dry_run THEN Unchanged(S, Report("DryRunOK", "", detail))
        ELSE [report |-> Report("OK", "", detail),
              fs |-> [e \in DOMAIN S.fs \cup made |->
                        IF e \in made THEN [kind |-> "dir", mdate |-> Today, cdate |-> Today]
                        ELSE S.fs[e]]]

\* create_folder(path, name)
create_folder(S, path, name) ==
    LET checked == create_folder_checks(S, path, name)
        folder_path == create_folder_path(path, name)
        depth == check_directory_depth(S, folder_path)
        naming == validate_folder_naming(PathName(folder_path))
        made == mkdir(S.fs, folder_path)
        detail == <<folder_path, depth.depth, ToolConfig.max_depth, naming_msg(naming)>>
    IN  IF checked # Pass THEN Unchanged(S, checked)
        ELSE IF S.dry_run THEN Unchanged(S, Report("DryRunOK", "", detail))
        ELSE IF made.ok THEN [report |-> Report("OK", "", detail), fs |-> made.fs]
        ELSE IF made.errno = "EEXIST" THEN Unchanged(S, Report("FolderExists", "EEXIST", <<>>))
        ELSE Unchanged(S, Report("CreateError", made.errno, <<>>))

\* The scan with no test of the date prefix: every visible file is a change.
BatchChanges_no_date_skip(F, target, use_modified) ==
    {[old |-> PathName(item),
      new |-> (IF use_modified THEN get_file_dates(F, item).modified_str
               ELSE get_file_dates(F, item).created_str) \o <<"_">> \o PathName(item),
      path |-> item] :
        item \in {i \in iterdir(F, target) :
                     is_file(F, i) /\ Head(PathName(i)) # "."}}

\* The changes batch_rename_with_date collects from target.iterdir().
BatchChanges(F, target, use_modified) ==
    {[old |-> PathName(item),
      new |-> (IF use_modified THEN get_file_dates(F, item).modified_str
               ELSE get_file_dates(F, item).created_str) \o <<"_">> \o PathName(item),
      path |-> item] :
        item \in {i \in iterdir(F, target) :
                     /\ is_file(F, i)
                     /\ Head(PathName(i)) # "."
                     /\ ~MatchesDatePattern(PathName(i))}}

RECURSIVE BatchApply_abort(_, _, _, _)
\* The loop broken off at the first failure, the failing changes coming first.
BatchApply_abort(F, changes, success, errors) ==
    IF changes = {} THEN [fs |-> F, success |-> success, errors |-> errors]
    ELSE LET failing == {c \in changes :
                            ~os_rename(F, c.path, PathJoin(PathParent(c.path), c.new)).ok}
             change == IF failing # {} THEN CHOOSE c \in failing : TRUE
                       ELSE CHOOSE c \in changes : TRUE
             new_path == PathJoin(PathParent(change.path), change.new)
             renamed == os_rename(F, change.path, new_path)
         IN  IF renamed.ok
             THEN BatchApply_abort(renamed.fs, changes \ {change}, success + 1, errors)
             ELSE [fs |-> F, success |-> success,
                   errors |-> errors \cup {<<change.old, renamed.errno>>}]

RECURSIVE BatchApply(_, _, _, _)
\* The loop over the changes.  No change's new name is another change's old or
\* new name (a new name carries a date prefix, an old one does not, and two new
\* names differ as the old ones do), so the order iterdir() gave them in does
\* not show in the result.
BatchApply(F, changes, success, errors) ==
    IF changes = {} THEN [fs |-> F, success |-> success, errors |-> errors]
    ELSE LET change == CHOOSE c \in changes : TRUE
             new_path == PathJoin(PathParent(change.path), change.new)
             renamed == os_rename(F, change.path, new_path)
         IN  IF renamed.ok
             THEN BatchApply(renamed.fs, changes \ {change}, success + 1, errors)
             ELSE BatchApply(F, changes \ {change}, success,
                             errors \cup {<<change.old, renamed.errno>>})

\* batch_rename_with_date: the checks before the dry-run branch.
batch_rename_with_date_checks(S, directory, use_modified) ==
    LET validation == validate_path(S, directory, TRUE)
        target == validation.resolved_path
    IN  IF ~validation.is_valid THEN Report("PathError", validation.error_message, <<>>)
        ELSE IF ~is_dir(S.fs, target) THEN Report("NotADirectory", "", <<directory>>)
        ELSE IF BatchChanges(S.fs, target, use_modified) = {}
        THEN Report("NothingToRename", "", <<>>)
        ELSE Pass

\* batch_rename_with_date(directory, use_modified)
batch_rename_with_date(S, directory, use_modified) ==
    LET checked == batch_rename_with_date_checks(S, directory, use_modified)
        target == resolve(Path(directory))
        changes == BatchChanges(S.fs, target, use_modified)
        date_type == IF use_modified THEN "modified" ELSE "created"
        done == BatchApply(S.fs, changes, 0, {})
    IN  IF checked # Pass THEN Unchanged(S, checked)
        ELSE IF S.dry_run
        THEN Unchanged(S, Report("DryRunOK", "",
                                 <<date_type, target, Cardinality(changes),
                                   {<<c.old, c.new>> : c \in changes}>>))
        ELSE [report |-> Report("Done", "",
                                <<date_type, done.success, Cardinality(done.errors),
                                  done.errors>>),
              fs |-> done.fs]

\* rename_with_suggestion(path, suggested_name, keep_extension)
rename_with_suggestion(S, path, suggested_name, keep_extension) ==
    LET validation == validate_path(S, path, TRUE)
        target == validation.resolved_path
        clean == sanitize_filename(suggested_name)
        new_name == IF keep_extension
                    THEN Stem(PathName(Path(clean))) \o Suffix(PathName(target))
                    ELSE clean
    IN  IF ~validation.is_valid
        THEN Unchanged(S, Report("PathError", validation.error_message, <<>>))
        ELSE IF ~is_file(S.fs, target) THEN Unchanged(S, Report("NotAFile", "", <<path>>))
        ELSE rename_file(S, PathStr(target), new_name)

RECURSIVE GroupPartition(_, _, _, _, _)
\* The loop that sorts file_names into files_to_move and missing_files.
GroupPartition(F, target_dir, file_names, files_to_move, missing_files) ==
    IF file_names = <<>>
    THEN [files_to_move |-> files_to_move, missing_files |-> missing_files]
    ELSE LET fname == Head(file_names)
             file_path == PathJoin(target_dir, fname)
         IN  IF exists(F, file_path) /\ is_file(F, file_path)
             THEN GroupPartition(F, target_dir, Tail(file_names),
                                 Append(files_to_move, file_path), missing_files)
             ELSE GroupPartition(F, target_dir, Tail(file_names),
                                 files_to_move, Append(missing_files, fname))

RECURSIVE GroupApply_unchecked(_, _, _, _, _)
\* The loop without the test for a file of that name in the folder.
GroupApply_unchecked(F, new_folder_path, files_to_move, success, errors) ==
    IF files_to_move = <<>> THEN [fs |-> F, success |-> success, errors |-> errors]
    ELSE LET file_path == Head(files_to_move)
             dest_path == PathJoin(new_folder_path, PathName(file_path))
             moved == shutil_move(F, file_path, dest_path)
         IN  IF moved.ok
             THEN GroupApply_unchecked(moved.fs, new_folder_path, Tail(files_to_move),
                                       success + 1, errors)
             ELSE GroupApply_unchecked(F, new_folder_path, Tail(files_to_move), success,
                                       Append(errors, <<PathName(file_path), moved.errno>>))

RECURSIVE GroupApply(_, _, _, _, _)
\* The loop that moves the files found, one after the other.
GroupApply(F, new_folder_path, files_to_move, success, errors) ==
    IF files_to_move = <<>> THEN [fs |-> F, success |-> success, errors |-> errors]
    ELSE LET file_path == Head(files_to_move)
             dest_path == PathJoin(new_folder_path, PathName(file_path))
             moved == shutil_move(F, file_path, dest_path)
         IN  IF exists(F, dest_path)
             THEN GroupApply(F, new_folder_path, Tail(files_to_move), success,
                             Append(errors, <<PathName(file_path), "AlreadyExists">>))
             ELSE IF moved.ok
             THEN GroupApply(moved.fs, new_folder_path, Tail(files_to_move),
                             success + 1, errors)
             ELSE GroupApply(F, new_folder_path, Tail(files_to_move), success,
                             Append(errors, <<PathName(file_path), moved.errno>>))

RECURSIVE Names(_)
\* [f.name for f in files]
Names(files) ==
    IF files = <<>> THEN <<>> ELSE <<PathName(Head(files))>> \o Names(Tail(files))

\* group_files_into_folder: new_folder_path
group_new_folder_path(directory, folder_name) ==
    PathJoin(resolve(Path(directory)), sanitize_filename(folder_name))

\* group_files_into_folder: the checks before the dry-run branch.
group_files_into_folder_checks(S, directory, folder_name, file_names) ==
    LET validation == validate_path(S, directory, TRUE)
        target_dir == validation.resolved_path
        found == GroupPartition(S.fs, target_dir, file_names, <<>>, <<>>)
        depth == check_directory_depth(S, group_new_folder_path(directory, folder_name))
    IN  IF ~validation.is_valid THEN Report("PathError", validation.error_message, <<>>)
        ELSE IF ~is_dir(S.fs, target_dir) THEN Report("NotADirectory", "", <<directory>>)
        ELSE IF file_names = <<>> THEN Report("EmptyList", "", <<>>)
        ELSE IF found.files_to_move = <<>>
        THEN Report("NoFilesFound", "", <<found.missing_files>>)
        ELSE IF ~depth.ok
        THEN Report("DepthExceeded", "", <<ToolConfig.max_depth, depth.depth>>)
        ELSE Pass

\* group_files_into_folder(directory, folder_name, file_names)
group_files_into_folder(S, directory, folder_name, file_names) ==
    LET checked == group_files_into_folder_checks(S, directory, folder_name, file_names)
        target_dir == resolve(Path(directory))
        naming == validate_folder_naming(sanitize_filename(folder_name))
        new_folder_path == group_new_folder_path(directory, folder_name)
        found == GroupPartition(S.fs, target_dir, file_names, <<>>, <<>>)
        made == IF exists(S.fs, new_folder_path)
                THEN [ok |-> TRUE, errno |-> "", fs |-> S.fs]
                ELSE mkdir(S.fs, new_folder_path)
        done == GroupApply(made.fs, new_folder_path, found.files_to_move, 0, <<>>)
    IN  IF checked # Pass THEN Unchanged(S, checked)
        ELSE IF S.dry_run
        THEN Unchanged(S, Report("DryRunOK", "",
                                 <<new_folder_path, naming_msg(naming),
                                   Len(found.files_to_move),
                                   First(Names(found.files_to_move), 5),
                                   First(found.missing_files, 5)>>))
        ELSE IF ~made.ok
        THEN Unchanged(S, Report(IF made.errno = "EEXIST" THEN "FolderExists"
                                 ELSE "GroupError", made.errno, <<>>))
        ELSE [report |-> Report("Grouped", "",
                                <<naming_msg(naming), new_folder_path, done.success,
                                  Len(done.errors), First(done.errors, 5),
                                  First(found.missing_files, 5)>>),
              fs |-> done.fs]

(***************************************************************************)
(* The process, its filesystem and the calls a client makes                *)
(***************************************************************************)
\* How many calls of one run may change the filesystem.
MaxChanges == 1

n_w == <<"w">>

n_wx == <<"w","x">>

n_a == <<"a">>

n_f == <<"f">>

n_o == <<"o">>

n_g == <<"g">>

n_q == <<"q">>

n_01g == <<"0","1","_","g">>

\* "g/q" and "g\q": names with a path separator in them.
n_g_slash_q == <<"g", "/", "q">>

n_g_backslash_q == <<"g", "\\", "q">>

\* " .g:." and "..": names to be cleaned, the second down to nothing.
n_messy == <<" ", ".", "g", ":", ".">>

n_dots == <<".", ".">>

\* "241213_f", the name f gets from its modification date, and the hidden ".h".
n_dated_f == <<"2", "4", "1", "2", "1", "3", "_", "f">>

n_hidden == <<".", "h">>

\* "g" with a null character after it.
n_g_nul == <<"g", NulChar>>

\* "b" and "241213_b", the name b gets from its modification date.
n_b == <<"b">>

n_dated_b == <<"2", "4", "1", "2", "1", "3", "_", "b">>

Windows == FORBIDDEN_PATHS[1]

\* "../o": a file name that leaves the directory it is joined to.
UpO == <<".", ".", "/", "o">>

\* The directory n levels below /w: /w/a/a/.../a
Deep(n) == [i \in 1..(n + 1) |-> IF i = 1 THEN n_w ELSE n_a]

Entry(kind, mdate, cdate) == [kind |-> kind, mdate |-> mdate, cdate |-> cdate]

Date1 == <<"2","4","1","2","1","3">>

Date2 == <<"2","4","1","1","0","1">>

InitDirs ==
    {<<>>, <<n_w>>, <<n_wx>>, <<n_w, n_dated_b>>} \cup {Deep(n) : n \in 1..MaxDepthDefault}

InitFiles == {<<n_w, n_f>>, <<n_w, n_b>>, <<n_w, n_a, n_f>>, <<n_o>>}

\* The filesystem the server is started on: a workspace /w with two files, a
\* folder that has the name one of them gets from its modification date, a
\* chain of folders as deep as the limit, a sibling /wx whose name starts as
\* the workspace's does, and a file /o outside.
InitFs ==
    [p \in InitDirs \cup InitFiles |->
        IF p \in InitDirs THEN Entry("dir", Date2, Date2)
        ELSE IF p = <<n_w, n_a, n_f>> THEN Entry("file", Date1, Date1)
        ELSE Entry("file", Date1, Date2)]

State == [fs |-> fs, env_root |-> env_root, dry_run |-> dry_run]

\* The entries a call changed: created, removed or replaced.
Touched(F, G) ==
    {p \in DOMAIN F \cup DOMAIN G :
        p \notin DOMAIN F \/ p \notin DOMAIN G \/ F[p] # G[p]}

\* A call of a tool: the tool and its arguments (path the first,
\* name the second, names a list, flag a boolean; a tool reads those it has).
ToolCall(op, path, name, names, flag) ==
    [op |-> op, path |-> path, name |-> name, names |-> names, flag |-> flag]

NoCall == [op |-> "start", code |-> "", error |-> "", dry |-> TRUE,
           root |-> EmptyStr, touched |-> {}]

\* The record of a call: the tool, what it reported, the flag and the root it
\* ran under, and the entries it changed.
Call(c, result) ==
    [op |-> c.op, code |-> result.report.code, error |-> result.report.error,
     dry |-> dry_run, root |-> env_root, touched |-> Touched(fs, result.fs)]

ConfigArgs == {PathStr(<<n_w>>), PathStr(<<n_w, n_f>>), PathStr(<<n_w, n_g>>)}

ListArgs == {PathStr(<<n_w>>), PathStr(Deep(MaxDepthDefault)), PathStr(<<n_wx>>), PathStr(<<n_o>>)}

\* move_file: onto a free name, into a directory that has the name, onto a
\* file, into the file's own directory, into /wx, to the deepest folder, to a
\* forbidden name, below a file; a file outside /w; a directory; the other file
\* to a name with a date prefix and to a hidden name; a null character in the
\* destination and in the source.
MoveArgs ==
    {<<PathStr(<<n_w, n_f>>), PathStr(<<n_w, n_g>>)>>,
     <<PathStr(<<n_w, n_f>>), PathStr(<<n_w, n_a>>)>>,
     <<PathStr(<<n_w, n_f>>), PathStr(<<n_w, n_a, n_f>>)>>,
     <<PathStr(<<n_w, n_f>>), PathStr(<<n_w>>)>>,
     <<PathStr(<<n_w, n_f>>), PathStr(<<n_wx>>)>>,
     <<PathStr(<<n_w, n_f>>), PathStr(Deep(MaxDepthDefault))>>,
     <<PathStr(<<n_w, n_f>>), PathStr(<<n_w, Windows>>)>>,
     <<PathStr(<<n_w, n_f>>), PathStr(<<n_w, n_a, n_f, n_g>>)>>,
     <<PathStr(<<n_o>>), PathStr(<<n_w>>)>>,
     <<PathStr(<<n_o>>), PathStr(<<n_w, n_f>>)>>,
     <<PathStr(<<n_w, n_a>>), PathStr(<<n_w, n_g>>)>>,
     <<PathStr(<<n_w, n_f>>), PathStr(Append(Deep(MaxDepthDefault), n_g))>>,
     <<PathStr(<<n_w, n_a, n_f>>), PathStr(<<n_w, n_dated_f>>)>>,
     <<PathStr(<<n_w, n_a, n_f>>), PathStr(<<n_w, n_hidden>>)>>,
     <<PathStr(<<n_w, n_f>>), PathStr(<<n_w, n_g_nul>>)>>,
     <<PathStr(<<n_w, n_g_nul>>), PathStr(<<n_w, n_g>>)>>}

MoveCalls == {ToolCall("move_file", args[1], args[2], <<>>, FALSE) : args \in MoveArgs}

\* rename_file: a file and a folder, to a free name, a taken one, a numbered
\* one, to names with a separator and to names to be cleaned.
RenameArgs ==
    {<<PathStr(<<n_w, n_f>>), n_g>>, <<PathStr(<<n_w, n_f>>), n_a>>,
     <<PathStr(<<n_w, n_a>>), n_g>>, <<PathStr(<<n_w, n_a>>), n_01g>>,
     <<PathStr(<<n_o>>), n_g>>,
     <<PathStr(<<n_w, n_f>>), n_g_slash_q>>, <<PathStr(<<n_w, n_f>>), n_g_backslash_q>>,
     <<PathStr(<<n_w, n_f>>), n_messy>>, <<PathStr(<<n_w, n_f>>), n_dots>>}

RenameCalls == {ToolCall("rename_file", args[1], args[2], <<>>, FALSE) : args \in RenameArgs}

CreateArgs ==
    {<<PathStr(<<n_w>>), n_g>>, <<PathStr(<<n_w, n_g>>), EmptyStr>>,
     <<PathStr(Deep(MaxDepthDefault - 1)), n_g>>, <<PathStr(Deep(MaxDepthDefault)), n_g>>,
     <<PathStr(<<n_wx>>), n_01g>>, <<PathStr(<<n_w, n_a, n_f>>), n_g>>,
     <<PathStr(<<n_w>>), Windows>>,
     <<PathStr(<<n_w>>), EmptyStr>>, <<PathStr(<<n_w, n_a>>), EmptyStr>>,
     <<PathStr(<<n_w, n_q>>), n_g>>, <<PathStr(<<n_o, n_q>>), n_g>>,
     <<PathStr(<<n_w>>), n_dated_f>>, <<PathStr(<<n_w>>), n_g_nul>>}

CreateCalls ==
    {ToolCall("create_folder", args[1], args[2], <<>>, FALSE) : args \in CreateArgs}

BatchArgs ==
    {<<PathStr(<<n_w>>), TRUE>>, <<PathStr(<<n_w>>), FALSE>>,
     <<PathStr(<<n_w, n_f>>), TRUE>>, <<PathStr(<<n_wx>>), TRUE>>,
     <<PathStr(<<n_w, n_a>>), TRUE>>}

BatchCalls ==
    {ToolCall("batch_rename_with_date", args[1], EmptyStr, <<>>, args[2]) :
        args \in BatchArgs}

\* group_files_into_folder in /w: a new folder, a numbered one, one that
\* exists and has the name, a forbidden name; no names, a missing name, only
\* missing names, a name that leads out of /w; a name given twice, two files
\* and a missing name, two files of which the folder has one.
GroupArgs ==
    {<<n_g, <<n_f>>>>, <<n_g, <<>>>>, <<n_g, <<n_f, n_q>>>>, <<n_g, <<n_q>>>>,
     <<n_g, <<UpO>>>>, <<n_01g, <<n_f>>>>, <<n_a, <<n_f>>>>, <<Windows, <<n_f>>>>,
     <<n_g, <<n_f, n_f>>>>, <<n_g, <<n_f, n_b, n_q>>>>, <<n_a, <<n_f, n_b>>>>}

\* ... and in the deepest folder, a new folder for the file moved there.
GroupCalls ==
    {ToolCall("group_files_into_folder", PathStr(<<n_w>>), args[1], args[2], FALSE) :
        args \in GroupArgs}
        \cup {ToolCall("group_files_into_folder", PathStr(Deep(MaxDepthDefault)),
                       n_g, <<n_f>>, FALSE)}

SuggestArgs ==
    {<<PathStr(<<n_w, n_f>>), n_g, TRUE>>, <<PathStr(<<n_w, n_f>>), n_g, FALSE>>,
     <<PathStr(<<n_w, n_a>>), n_g, TRUE>>}

SuggestCalls ==
    {ToolCall("rename_with_suggestion", args[1], args[2], <<>>, args[3]) :
        args \in SuggestArgs}

\* The calls of the tools that can change the filesystem.
MutatingCalls ==
    MoveCalls \cup RenameCalls \cup CreateCalls \cup BatchCalls \cup GroupCalls
        \cup SuggestCalls

\* What the tool called returns in S: [report, fs]
Apply(S, c) ==
    CASE c.op = "move_file" -> move_file(S, c.path, c.name)
      [] c.op = "rename_file" -> rename_file(S, c.path, c.name)
      [] c.op = "create_folder" -> create_folder(S, c.path, c.name)
      [] c.op = "batch_rename_with_date" -> batch_rename_with_date(S, c.path, c.flag)
      [] c.op = "group_files_into_folder" ->
            group_files_into_folder(S, c.path, c.name, c.names)
      [] c.op = "rename_with_suggestion" ->
            rename_with_suggestion(S, c.path, c.name, c.flag)

NoReport == Report("", "", <<>>)

\* No call in progress.  A call in progress is at pc, between its checks
\* ("checks", for the batch "scan"), its reading of config.dry_run ("gate") and
\* its changes ("exec", "make", "items"), and "done" once it returned `report`.
\* src, dst, listed, pending, changes, files and plan are the call's local
\* variables; the rest is history: number counts the calls started, planned
\* the items the call set out to change, attempted those it handed to the
\* operating system, success and failed what it counts, reads its readings of
\* config.dry_run, simulated whether it read TRUE, mutated the changes it made,
\* external the changes others made meanwhile, enabled_at_start the flag when
\* it began, disabled_since and enabled_late whether set_dry_run(false)
\* completed after its start and set_dry_run(true) after its reading.
Idle ==
    [pc |-> "idle", call |-> ToolCall("", EmptyStr, EmptyStr, <<>>, FALSE),
     src |-> <<>>, dst |-> <<>>, listed |-> {}, pending |-> {}, changes |-> {},
     files |-> <<>>, plan |-> NoReport, report |-> NoReport,
     number |-> 0, planned |-> 0, attempted |-> 0, success |-> 0, failed |-> 0,
     reads |-> 0, simulated |-> FALSE, mutated |-> 0, external |-> 0,
     enabled_at_start |-> TRUE, disabled_since |-> FALSE, enabled_late |-> FALSE]

Init ==
    /\ fs = InitFs
    /\ env_root = EmptyStr
    /\ dry_run = ToolConfig.dry_run
    /\ requested = TRUE
    /\ last = NoCall
    /\ nchanges = 0
    /\ run = Idle

\* A tool that leaves the configuration alone returned `result`.  A run is
\* followed as long as no more than MaxChanges of its calls changed the
\* filesystem.
Returns(c, result) ==
    /\ result.fs # fs => nchanges < MaxChanges
    /\ fs' = result.fs
    /\ last' = Call(c, result)
    /\ nchanges' = IF result.fs # fs THEN nchanges + 1 ELSE nchanges
    /\ UNCHANGED <<env_root, dry_run, requested, run>>

SetDryRun ==
    \E enabled \in BOOLEAN :
        /\ dry_run' = set_dry_run(enabled)
        /\ requested' = enabled
        /\ last' = [NoCall EXCEPT !.op = "set_dry_run", !.code = "OK",
                                  !.dry = dry_run, !.root = env_root]
        /\ UNCHANGED <<fs, env_root, nchanges, run>>

ConfigureWorkspace ==
    \E root_path \in ConfigArgs :
        LET result == configure_workspace(State, root_path)
        IN  /\ env_root' = result.env
            /\ last' = [NoCall EXCEPT !.op = "configure_workspace",
                                      !.code = result.report.code,
                                      !.dry = dry_run, !.root = env_root]
            /\ UNCHANGED <<fs, dry_run, requested, nchanges, run>>

ListDirectory ==
    \E path \in ListArgs :
        Returns(ToolCall("list_directory", path, EmptyStr, <<>>, FALSE),
                list_directory(State, path, FALSE))

MoveFile ==
    \E c \in MoveCalls : Returns(c, move_file(State, c.path, c.name))

RenameFile ==
    \E c \in RenameCalls : Returns(c, rename_file(State, c.path, c.name))

CreateFolder ==
    \E c \in CreateCalls : Returns(c, create_folder(State, c.path, c.name))

BatchRenameWithDate ==
    \E c \in BatchCalls : Returns(c, batch_rename_with_date(State, c.path, c.flag))

GroupFilesIntoFolder ==
    \E c \in GroupCalls :
        Returns(c, group_files_into_folder(State, c.path, c.name, c.names))

RenameWithSuggestion ==
    \E c \in SuggestCalls :
        Returns(c, rename_with_suggestion(State, c.path, c.name, c.flag))

Next ==
    \/ SetDryRun
    \/ ConfigureWorkspace
    \/ ListDirectory
    \/ MoveFile
    \/ RenameFile
    \/ CreateFolder
    \/ BatchRenameWithDate
    \/ GroupFilesIntoFolder
    \/ RenameWithSuggestion

Spec == Init /\ [][Next]_vars

(***************************************************************************)
(* A call followed step by step, with other threads and processes acting   *)
(* between its steps                                                       *)
(***************************************************************************)
\* How many calls are followed, and how many changes others make to the
\* filesystem while one call is in progress.
MaxInvocations == 1

MaxExternal == 1

\* One call of each tool that changes the filesystem, all in /w: f to g,
\* a folder g, the date prefix for f and b, f and b into g.
StepCalls ==
    {ToolCall("move_file", PathStr(<<n_w, n_f>>), PathStr(<<n_w, n_g>>), <<>>, FALSE),
     ToolCall("rename_file", PathStr(<<n_w, n_f>>), n_g, <<>>, FALSE),
     ToolCall("rename_with_suggestion", PathStr(<<n_w, n_f>>), n_g, <<>>, TRUE),
     ToolCall("create_folder", PathStr(<<n_w>>), n_g, <<>>, FALSE),
     ToolCall("batch_rename_with_date", PathStr(<<n_w>>), EmptyStr, <<>>, TRUE),
     ToolCall("group_files_into_folder", PathStr(<<n_w>>), n_g, <<n_f, n_b>>, FALSE)}

\* The files another process removes or, where there is none, creates.
ExternalPaths == {<<n_w, n_f>>, <<n_w, n_b>>, <<n_w, n_g>>}

\* What the checks of a tool come to on the filesystem of the moment: the
\* report of the check that failed or, if none did, the report the dry-run
\* branch formats from what the checks computed.
Plan(S, c) ==
    LET T == [S EXCEPT !.dry_run = TRUE]
    IN  CASE c.op = "move_file" -> move_file(T, c.path, c.name).report
          [] c.op = "rename_file" -> rename_file(T, c.path, c.name).report
          [] c.op = "rename_with_suggestion" ->
                rename_with_suggestion(T, c.path, c.name, c.flag).report
          [] c.op = "create_folder" -> create_folder(T, c.path, c.name).report
          [] c.op = "group_files_into_folder" ->
                group_files_into_folder(T, c.path, c.name, c.names).report
          [] OTHER -> NoReport

\* batch_rename_with_date: the checks before the scan.
batch_rename_with_date_checks_before_scan(S, directory) ==
    LET validation == validate_path(S, directory, TRUE)
    IN  IF ~validation.is_valid THEN Report("PathError", validation.error_message, <<>>)
        ELSE IF ~is_dir(S.fs, validation.resolved_path)
        THEN Report("NotADirectory", "", <<directory>>)
        ELSE Pass

\* The path a call changes: source, target or directory.
StepSource(c) == resolve(Path(c.path))

\* The path a call makes: dest_path, new_path, folder_path, new_folder_path.
StepDestination(S, c) ==
    CASE c.op = "move_file" -> move_file_dest_path(S, c.path, c.name)
      [] c.op = "rename_file" ->
            PathJoin(PathParent(StepSource(c)), sanitize_filename(c.name))
      [] c.op = "rename_with_suggestion" ->
            LET clean == sanitize_filename(c.name)
                new_name == IF c.flag
                            THEN Stem(PathName(Path(clean)))
                                    \o Suffix(PathName(StepSource(c)))
                            ELSE clean
            IN  PathJoin(PathParent(StepSource(c)), sanitize_filename(new_name))
      [] c.op = "create_folder" -> create_folder_path(c.path, c.name)
      [] c.op = "group_files_into_folder" -> group_new_folder_path(c.path, c.name)
      [] c.op = "batch_rename_with_date" -> StepSource(c)

\* The call in progress returned `report`.
Finished(report) == [run EXCEPT !.pc = "done", !.report = report]

\* One pass of the batch's rename loop, with the flag read again for the item.
batch_rename_item_rereads_flag(F, change) ==
    LET renamed == os_rename(F, change.path, PathJoin(PathParent(change.path), change.new))
    IN  IF dry_run THEN [attempted |-> FALSE, ok |-> TRUE, fs |-> F]
        ELSE [attempted |-> TRUE, ok |-> renamed.ok, fs |-> renamed.fs]

\* One pass of the batch's rename loop: the rename, an exception counted as
\* a failure.
batch_rename_item(F, change) ==
    LET renamed == os_rename(F, change.path, PathJoin(PathParent(change.path), change.new))
    IN  [attempted |-> TRUE, ok |-> renamed.ok, fs |-> renamed.fs]

\* One pass of the grouping's move loop: a taken name or an exception is a
\* failure.
group_move_item(F, new_folder_path, file_path) ==
    LET dest_path == PathJoin(new_folder_path, PathName(file_path))
        moved == shutil_move(F, file_path, dest_path)
    IN  IF exists(F, dest_path) THEN [attempted |-> TRUE, ok |-> FALSE, fs |-> F]
        ELSE [attempted |-> TRUE, ok |-> moved.ok, fs |-> moved.fs]

\* The server after tool_configure_workspace("/w") on the initial filesystem.
StepInit ==
    /\ fs = InitFs
    /\ env_root = configure_workspace([fs |-> InitFs, env_root |-> EmptyStr,
                                       dry_run |-> ToolConfig.dry_run],
                                      PathStr(<<n_w>>)).env
    /\ dry_run = ToolConfig.dry_run
    /\ requested = TRUE
    /\ last = NoCall
    /\ nchanges = 0
    /\ run = Idle

\* A client calls a tool.
StartCall ==
    /\ run.pc \in {"idle", "done"}
    /\ run.number < MaxInvocations
    /\ \E c \in StepCalls :
            run' = [Idle EXCEPT !.pc = "checks", !.call = c, !.number = run.number + 1,
                                !.enabled_at_start = dry_run]
    /\ UNCHANGED <<fs, env_root, dry_run, requested, last, nchanges>>

\* The call's checks, up to the dry-run branch; for the batch up to the
\* listing of the directory.
RunChecks ==
    /\ run.pc = "checks"
    /\ LET c == run.call
           plan == Plan(State, c)
           checked == batch_rename_with_date_checks_before_scan(State, c.path)
       IN  run' = IF c.op = "batch_rename_with_date"
                  THEN IF checked # Pass THEN Finished(checked)
                       ELSE [run EXCEPT !.pc = "scan", !.src = StepSource(c),
                                        !.listed = iterdir(fs, StepSource(c))]
                  ELSE IF plan.code # "DryRunOK" THEN Finished(plan)
                  ELSE [run EXCEPT
                            !.pc = "gate", !.plan = plan, !.src = StepSource(c),
                            !.dst = StepDestination(State, c),
                            !.files = IF c.op = "group_files_into_folder"
                                      THEN GroupPartition(fs, StepSource(c), c.names,
                                                          <<>>, <<>>).files_to_move
                                      ELSE <<>>,
                            !.planned = IF c.op = "group_files_into_folder"
                                        THEN plan.detail[3] ELSE 1]
    /\ UNCHANGED <<fs, env_root, dry_run, requested, last, nchanges>>

\* The batch's scan: the tests of one listed entry, up to the date pattern.
ScanTest ==
    /\ run.pc = "scan" /\ run.pending = {}
    /\ \E item \in run.listed :
            run' = [run EXCEPT
                        !.listed = @ \ {item},
                        !.pending = IF /\ is_file(fs, item)
                                       /\ Head(PathName(item)) # "."
                                       /\ ~MatchesDatePattern(PathName(item))
                                    THEN {item} ELSE {}]
    /\ UNCHANGED <<fs, env_root, dry_run, requested, last, nchanges>>

\* The batch's scan: get_file_dates(item), whose stat() raises
\* FileNotFoundError when the entry is gone, and the change collected.
ScanStat ==
    /\ run.pc = "scan" /\ run.pending # {}
    /\ \E item \in run.pending :
            run' = IF ~exists(fs, item) THEN Finished(Raised("FileNotFoundError"))
                   ELSE [run EXCEPT
                            !.pending = {},
                            !.changes = @ \cup
                                {[old |-> PathName(item),
                                  new |-> (IF run.call.flag
                                           THEN get_file_dates(fs, item).modified_str
                                           ELSE get_file_dates(fs, item).created_str)
                                              \o <<"_">> \o PathName(item),
                                  path |-> item]}]
    /\ UNCHANGED <<fs, env_root, dry_run, requested, last, nchanges>>

\* The batch after its scan: nothing to rename, or on to the dry-run branch.
ScanEnd ==
    /\ run.pc = "scan" /\ run.pending = {} /\ run.listed = {}
    /\ run' = IF run.changes = {} THEN Finished(Report("NothingToRename", "", <<>>))
              ELSE [run EXCEPT
                        !.pc = "gate", !.planned = Cardinality(run.changes),
                        !.plan = Report("DryRunOK", "",
                                        <<IF run.call.flag THEN "modified" ELSE "created",
                                          run.src, Cardinality(run.changes),
                                          {<<c.old, c.new>> : c \in run.changes}>>)]
    /\ UNCHANGED <<fs, env_root, dry_run, requested, last, nchanges>>

\* `if config.dry_run:` the call returns its plan, or goes on to its changes.
ReadFlag ==
    /\ run.pc = "gate"
    /\ run' = IF dry_run
              THEN [Finished(run.plan) EXCEPT !.reads = @ + 1, !.simulated = TRUE]
              ELSE [run EXCEPT
                        !.reads = @ + 1,
                        !.pc = CASE run.call.op = "group_files_into_folder" -> "make"
                                 [] run.call.op = "batch_rename_with_date" -> "items"
                                 [] OTHER -> "exec"]
    /\ UNCHANGED <<fs, env_root, dry_run, requested, last, nchanges>>

\* The one change of move_file, rename_file (also for rename_with_suggestion)
\* and create_folder, in its try block.
Execute ==
    /\ run.pc = "exec"
    /\ LET op == run.call.op
           done == CASE op = "move_file" -> shutil_move(fs, run.src, run.dst)
                     [] op = "create_folder" -> mkdir(fs, run.dst)
                     [] OTHER -> os_rename(fs, run.src, run.dst)
           failure == CASE op = "move_file" -> "MoveError"
                        [] op = "create_folder" ->
                              IF done.errno = "EEXIST" THEN "FolderExists" ELSE "CreateError"
                        [] OTHER -> "RenameError"
       IN  /\ fs' = done.fs
           /\ run' = [Finished(IF done.ok THEN Report("OK", "", <<run.src, run.dst>>)
                               ELSE Report(failure, done.errno, <<>>))
                        EXCEPT !.attempted = 1,
                               !.success = IF done.ok THEN 1 ELSE 0,
                               !.failed = IF done.ok THEN 0 ELSE 1,
                               !.mutated = IF done.fs # fs THEN 1 ELSE 0]
    /\ UNCHANGED <<env_root, dry_run, requested, last, nchanges>>

\* The grouping makes its folder unless there is an entry of that name.
MakeFolder ==
    /\ run.pc = "make"
    /\ LET made == IF exists(fs, run.dst) THEN [ok |-> TRUE, errno |-> "", fs |-> fs]
                   ELSE mkdir(fs, run.dst)
       IN  /\ fs' = made.fs
           /\ run' = IF made.ok
                     THEN [run EXCEPT !.pc = "items",
                                      !.mutated = IF made.fs # fs THEN @ + 1 ELSE @]
                     ELSE Finished(Report(IF made.errno = "EEXIST" THEN "FolderExists"
                                          ELSE "GroupError", made.errno, <<>>))
    /\ UNCHANGED <<env_root, dry_run, requested, last, nchanges>>

\* One pass of the batch's rename loop.
RenameItem ==
    /\ run.pc = "items" /\ run.call.op = "batch_rename_with_date"
    /\ \E change \in run.changes :
            LET item == batch_rename_item(fs, change)
            IN  /\ fs' = item.fs
                /\ run' = [run EXCEPT
                            !.changes = @ \ {change},
                            !.attempted = IF item.attempted THEN @ + 1 ELSE @,
                            !.success = IF item.ok THEN @ + 1 ELSE @,
                            !.failed = IF item.ok THEN @ ELSE @ + 1,
                            !.mutated = IF item.fs # fs THEN @ + 1 ELSE @]
    /\ UNCHANGED <<env_root, dry_run, requested, last, nchanges>>

\* One pass of the grouping's move loop.
MoveItem ==
    /\ run.pc = "items" /\ run.call.op = "group_files_into_folder"
    /\ run.files # <<>>
    /\ LET item == group_move_item(fs, run.dst, Head(run.files))
       IN  /\ fs' = item.fs
           /\ run' = [run EXCEPT
                        !.files = Tail(@),
                        !.attempted = IF item.attempted THEN @ + 1 ELSE @,
                        !.success = IF item.ok THEN @ + 1 ELSE @,
                        !.failed = IF item.ok THEN @ ELSE @ + 1,
                        !.mutated = IF item.fs # fs THEN @ + 1 ELSE @]
    /\ UNCHANGED <<env_root, dry_run, requested, last, nchanges>>

\* The batch or the grouping returns its counts after the last item.
ReturnCounts ==
    /\ run.pc = "items" /\ run.changes = {} /\ run.files = <<>>
    /\ run' = Finished(Report(IF run.call.op = "batch_rename_with_date"
                              THEN "Done" ELSE "Grouped",
                              "", <<run.success, run.failed>>))
    /\ UNCHANGED <<fs, env_root, dry_run, requested, last, nchanges>>

\* Another process removes a file, or creates one, while the call is in
\* progress.
ExternalChange ==
    /\ run.pc \notin {"idle", "done"}
    /\ run.external < MaxExternal
    /\ \E p \in ExternalPaths :
            \/ /\ is_file(fs, p)
               /\ fs' = [e \in DOMAIN fs \ {p} |-> fs[e]]
            \/ /\ ~exists(fs, p)
               /\ fs' = [e \in DOMAIN fs \cup {p} |->
                            IF e = p THEN Entry("file", Today, Today) ELSE fs[e]]
    /\ run' = [run EXCEPT !.external = @ + 1]
    /\ UNCHANGED <<env_root, dry_run, requested, last, nchanges>>

\* Another thread's tool_set_dry_run(enabled), at any moment.
SetDryRunMeanwhile ==
    \E enabled \in BOOLEAN :
        /\ dry_run' = set_dry_run(enabled)
        /\ requested' = enabled
        /\ run' = IF run.pc \in {"idle", "done"} THEN run
                  ELSE [run EXCEPT !.disabled_since = @ \/ ~enabled,
                                   !.enabled_late = @ \/ (enabled /\ run.reads > 0)]
        /\ UNCHANGED <<fs, env_root, last, nchanges>>

StepNext ==
    \/ StartCall
    \/ RunChecks
    \/ ScanTest
    \/ ScanStat
    \/ ScanEnd
    \/ ReadFlag
    \/ Execute
    \/ MakeFolder
    \/ RenameItem
    \/ MoveItem
    \/ ReturnCounts
    \/ ExternalChange
    \/ SetDryRunMeanwhile

StepSpec == StepInit /\ [][StepNext]_vars

(***************************************************************************)
(* The sandbox and the forbidden paths                                     *)
(***************************************************************************)
\* The tools that can change the filesystem.
MutatingOps ==
    {"move_file", "rename_file", "create_folder", "batch_rename_with_date",
     "group_files_into_folder", "rename_with_suggestion"}

\* P has a component that is a forbidden folder literal.
HasForbiddenPart(P) == \E i \in 1..Len(P) : P[i] \in ForbiddenNames

\* P is the directory Q or lies below it, component by component.
InsideRoot(P, Q) == Under(resolve(P), resolve(Q))

\* Paths handed to validate_path: inside /w, beside it, above it, existing and
\* not, and for every forbidden literal a path inside /w, one in /wx and one
\* elsewhere that has it as a component.
PlainProbes ==
    {PathStr(<<n_w>>), PathStr(<<n_w, n_f>>), PathStr(<<n_w, n_q>>), PathStr(<<n_wx>>),
     PathStr(<<n_wx, n_q>>), PathStr(<<n_o>>), PathStr(<<n_q, n_q>>),
     PathStr(<<n_w, DOTDOT, n_o>>), PathStr(<<n_w, n_a, DOTDOT, n_f>>), PathStr(<<>>)}

ForbiddenProbes ==
    UNION {{PathStr(<<n_w, name>>), PathStr(<<n_wx, name, n_q>>), PathStr(<<name>>),
            PathStr(<<n_w, n_a, DOTDOT, name, n_f>>)} : name \in ForbiddenNames}

\* C1: once a root R is configured, every entry a tool call creates, moves or
\* renames has its old and its new location inside R: a call changes nothing
\* outside R.
C1_MutationsStayInsideRoot ==
    (last.op \in MutatingOps /\ last.root # EmptyStr)
        => \A p \in last.touched : InsideRoot(p, Path(last.root))

\* C2: with a root configured, validate_path rejects every path that is neither
\* the root nor below it with the outside-sandbox error, whether the path must
\* exist or not.  (The paths have no forbidden component: that check comes
\* first and has its own error.)
C2_OutsideRootIsRejected ==
    env_root # EmptyStr =>
        \A p \in PlainProbes, must_exist \in BOOLEAN :
            ~InsideRoot(Path(p), get_target_root(State)) =>
                /\ ~validate_path(State, p, must_exist).is_valid
                /\ validate_path(State, p, must_exist).error_message = "OutsideSandbox"

\* C3: validate_path rejects every path with a forbidden component with the
\* forbidden-path error, whatever the root is, and so no mutating call creates,
\* moves or renames an entry whose path has a forbidden component.
C3_ForbiddenPathsAreNeverTouched ==
    /\ \A p \in ForbiddenProbes, must_exist \in BOOLEAN :
            /\ ~validate_path(State, p, must_exist).is_valid
            /\ validate_path(State, p, must_exist).error_message = "Forbidden"
    /\ last.op \in MutatingOps => \A p \in last.touched : ~HasForbiddenPart(p)

(***************************************************************************)
(* The dry-run flag                                                        *)
(***************************************************************************)
\* C4: while the dry-run flag is true, no call of a mutating tool, whatever its
\* arguments, changes the filesystem: not the call made last, and none that
\* could be made next.
C4_DryRunChangesNothing ==
    /\ (last.op \in MutatingOps /\ last.dry) => last.touched = {}
    /\ dry_run => \A c \in MutatingCalls : Apply(State, c).fs = fs

\* A move was planned under dry-run after an earlier call had really changed
\* the filesystem.
C4_Witness ==
    /\ last.op = "move_file" /\ last.dry /\ last.code = "DryRunOK"
    /\ nchanges > 0

\* C5: with dry-run enabled, the same mutating call made twice in a row returns
\* the same report both times.
C5_DryRunReportsRepeat ==
    dry_run =>
        \A c \in MutatingCalls :
            LET first == Apply(State, c)
                second == Apply([State EXCEPT !.fs = first.fs], c)
            IN  /\ second.report.code = first.report.code
                /\ second.report = first.report

\* A batch rename was planned under dry-run.
C5_Witness ==
    /\ last.op = "batch_rename_with_date" /\ last.dry /\ last.code = "DryRunOK"
    /\ \E c \in BatchCalls :
            /\ Apply(State, c).report.code = "DryRunOK"
            /\ Apply([State EXCEPT !.fs = Apply(State, c).fs], c).report.code = "DryRunOK"

\* C6: the dry-run flag is true at startup and always equals the argument of
\* the most recent set_dry_run call; no other call changes it.
C6_DryRunFollowsSetDryRun == dry_run = requested

\* The flag was switched off and a mutating call that changed the filesystem
\* left it off.
C6_Witness == ~dry_run /\ last.op \in MutatingOps /\ last.touched # {}

\* The reports that are a failed validation check.
ValidationCodes ==
    {"SourceError", "NotAFile", "DestDirError", "DestError", "AlreadyExists",
     "DepthExceeded", "PathError", "InvalidName", "ParentError", "NotADirectory",
     "EmptyList", "NoFilesFound"}

\* The validation error a report states: the check and what it found, <<>> if
\* none.  The report of a grouping lists "already exists" for each file whose
\* name is taken in the folder.
ValidationError(report) ==
    IF report.code \in ValidationCodes THEN <<report.code, report.error>>
    ELSE IF report.code = "Grouped"
            /\ \E k \in 1..Len(report.detail[5]) : report.detail[5][k][2] = "AlreadyExists"
    THEN <<"AlreadyExists", "">>
    ELSE <<>>

\* C7: a mutating call returns a validation error with dry-run enabled exactly
\* if it returns the same error with dry-run disabled, and then the filesystem
\* is unchanged in both modes: every check runs before the flag is read.
C7_ValidationIgnoresDryRun ==
    \A c \in MutatingCalls :
        LET planned == Apply([State EXCEPT !.dry_run = TRUE], c)
            done == Apply([State EXCEPT !.dry_run = FALSE], c)
        IN  /\ ValidationError(planned.report) = ValidationError(done.report)
            /\ ValidationError(planned.report) # <<>> => planned.fs = fs
            /\ ValidationError(done.report) # <<>> => done.fs = fs

(***************************************************************************)
(* Collisions and depth                                                    *)
(***************************************************************************)
\* P may be used in S: it has no forbidden component and, when a root is
\* configured, it is the root or lies below it.
Allowed(S, P) ==
    /\ ~HasForbiddenPart(P)
    /\ get_target_root(S) = None \/ InsideRoot(P, get_target_root(S))

\* C8: move_file(x, d) whose resolved destination path exists (d an existing
\* file, or an existing directory with an entry named like x) fails and leaves
\* the filesystem as it is, in both dry-run states; the failure is the
\* already-exists error whenever x is a file that may be moved there (x an
\* existing regular file, x and the destination allowed).
C8_MoveCollisionFails ==
    \A c \in MoveCalls, mode \in BOOLEAN :
        LET S == [State EXCEPT !.dry_run = mode]
            x == resolve(Path(c.path))
            d == resolve(Path(c.name))
            dest == IF is_dir(fs, d) THEN Append(d, PathName(x)) ELSE d
            result == move_file(S, c.path, c.name)
        IN  exists(fs, dest) =>
                /\ result.fs = fs
                /\ result.report.code \notin {"OK", "DryRunOK"}
                /\ (is_file(fs, x) /\ Allowed(S, x) /\ Allowed(S, dest))
                        => result.report.code = "AlreadyExists"

\* With dry-run off and a root configured, a move onto an existing entry was
\* refused.
C8_Witness ==
    /\ last.op = "move_file" /\ last.code = "AlreadyExists"
    /\ ~last.dry /\ last.root # EmptyStr

\* The reference for check_directory_depth: (TRUE, 0) without a root or for a
\* path that is not under it, else the number n of segments after the root
\* and whether n <= 5.
DepthReference(S, P) ==
    IF S.env_root = EmptyStr \/ ~InsideRoot(P, Path(S.env_root))
    THEN [ok |-> TRUE, depth |-> 0]
    ELSE [ok |-> Len(resolve(P)) - Len(resolve(Path(S.env_root))) <= 5,
          depth |-> Len(resolve(P)) - Len(resolve(Path(S.env_root)))]

\* The paths whose depth is asked: the root's chain of folders down to one
\* level past the limit, entries beside and above the root, and a path with
\* a ".." in it.
DepthProbes ==
    {Deep(n) : n \in 0..(MaxDepthDefault + 1)}
        \cup {<<>>, <<n_wx>>, <<n_wx, n_q>>, <<n_o>>, <<n_w, n_g>>, <<n_w, n_g, n_q>>,
              <<n_w, n_a, DOTDOT, n_f>>, <<n_w, DOTDOT, n_o>>}

\* C9: check_directory_depth equals the reference on every path, and with the
\* root /w the folder five segments below it is within the limit and the one
\* six segments below it is not.
C9_DepthMatchesReference ==
    /\ \A P \in DepthProbes : check_directory_depth(State, P) = DepthReference(State, P)
    /\ env_root = PathStr(<<n_w>>) =>
            /\ check_directory_depth(State, Deep(5)) = [ok |-> TRUE, depth |-> 5]
            /\ check_directory_depth(State, Deep(6)) = [ok |-> FALSE, depth |-> 6]

\* With the root /w, a folder was created five segments below it.
C9_Witness ==
    /\ last.op = "create_folder" /\ last.code = "OK" /\ last.root = PathStr(<<n_w>>)
    /\ \E P \in last.touched : check_directory_depth(State, P) = [ok |-> TRUE, depth |-> 5]

\* C10: with a root set, create_folder for a folder more than 5 segments below
\* the root fails and creates nothing, in both dry-run states, with the
\* depth-exceeded error whenever the folder could otherwise be created (its
\* parent exists, it does not, and it has no forbidden component); and no
\* folder a create_folder call made lies more than 5 segments below the root
\* the call ran under.
C10_CreateFolderDepthLimit ==
    /\ env_root # EmptyStr =>
        \A c \in CreateCalls, mode \in BOOLEAN :
            LET S == [State EXCEPT !.dry_run = mode]
                root == resolve(Path(env_root))
                folder == resolve(IF c.name # EmptyStr THEN Path(c.path) \o Parts(c.name)
                                  ELSE Path(c.path))
                result == create_folder(S, c.path, c.name)
            IN  (Under(folder, root) /\ Len(folder) - Len(root) > 5) =>
                    /\ result.fs = fs
                    /\ result.report.code \notin {"OK", "DryRunOK"}
                    /\ (is_dir(fs, PathParent(folder)) /\ ~exists(fs, folder)
                            /\ ~HasForbiddenPart(folder))
                        => result.report.code = "DepthExceeded"
    /\ (last.op = "create_folder" /\ last.root # EmptyStr) =>
            \A P \in last.touched :
                Under(P, resolve(Path(last.root)))
                    => Len(P) - Len(resolve(Path(last.root))) <= 5

\* With dry-run off, the creation of a folder six segments below the root was
\* refused.
C10_Witness ==
    /\ last.op = "create_folder" /\ last.code = "DepthExceeded"
    /\ ~last.dry /\ last.root = PathStr(<<n_w>>)
    /\ last.touched = {}

(***************************************************************************)
(* Warnings: depth and naming                                              *)
(***************************************************************************)
\* The number of segments of P below the root of S, 0 without a root or for a
\* path that is not under it.
DepthBelowRoot(S, P) ==
    IF S.env_root = EmptyStr \/ ~InsideRoot(P, Path(S.env_root)) THEN 0
    ELSE Len(resolve(P)) - Len(resolve(Path(S.env_root)))

\* The folder a call puts entries into: where the moved or renamed entry
\* lands, the folder of a grouping, the directory of a batch.
DestinationFolder(S, c) ==
    CASE c.op = "move_file" -> PathParent(move_file_dest_path(S, c.path, c.name))
      [] c.op = "group_files_into_folder" -> group_new_folder_path(c.path, c.name)
      [] OTHER -> IF is_dir(S.fs, resolve(Path(c.path))) /\ c.op = "batch_rename_with_date"
                  THEN resolve(Path(c.path))
                  ELSE PathParent(resolve(Path(c.path)))

\* C11: in move_file, rename_file, batch_rename_with_date and
\* group_files_into_folder a depth overage does not block: with dry-run off
\* and no other check failing, a call whose destination folder lies deeper
\* than MaxDepth below the root is carried out.
C11_DepthOverageOnlyWarns ==
    \A c \in MoveCalls \cup RenameCalls \cup BatchCalls \cup GroupCalls :
        LET S == [State EXCEPT !.dry_run = FALSE]
            result == Apply(S, c)
        IN  (/\ DepthBelowRoot(S, DestinationFolder(S, c)) > MaxDepthDefault
             /\ result.report.code \notin ValidationCodes \ {"DepthExceeded"})
                => /\ result.report.code \in {"OK", "Done", "Grouped"}
                   /\ result.fs # fs

\* The calls that name a folder "g", which is outside the NN_name convention;
\* WithName(c, n_01g) is the same call with the conforming name "01_g".
PlainNameCalls ==
    {c \in CreateCalls \cup RenameCalls \cup GroupCalls : c.name = n_g}

WithName(c, name) == [c EXCEPT !.name = name]

\* P with every part "01_g" replaced by "g".
PlainName(P) == [i \in 1..Len(P) |-> IF P[i] = n_01g THEN n_g ELSE P[i]]

\* The naming warning a report of a folder operation carries, "" if none.
NamingWarning(report) ==
    IF report.code = "Grouped" THEN report.detail[1]
    ELSE IF report.code = "OK" THEN report.detail[4]
    ELSE ""

\* C12: a folder name outside the NN_name convention never blocks
\* create_folder, rename_file or group_files_into_folder.  Where neither "g"
\* nor "01_g" is in use, the call naming the folder "g" returns what the call
\* naming it "01_g" returns, in both dry-run states, and leaves the same
\* filesystem but for the name; when it is carried out on a folder its report
\* carries the naming warning and the other's does not.
C12_NamingNeverBlocks ==
    (\A p \in DOMAIN fs : \A i \in 1..Len(p) : p[i] \notin {n_g, n_01g}) =>
        \A c \in PlainNameCalls, mode \in BOOLEAN :
            LET S == [State EXCEPT !.dry_run = mode]
                plain == Apply(S, c)
                numbered == Apply(S, WithName(c, n_01g))
                on_folder == c.op # "rename_file" \/ is_dir(fs, resolve(Path(c.path)))
            IN  /\ plain.report.code = numbered.report.code
                /\ DOMAIN plain.fs = {PlainName(p) : p \in DOMAIN numbered.fs}
                /\ \A p \in DOMAIN numbered.fs : plain.fs[PlainName(p)] = numbered.fs[p]
                /\ (plain.report.code \in {"OK", "Grouped"} /\ on_folder) =>
                        /\ NamingWarning(plain.report) # ""
                        /\ NamingWarning(numbered.report) = ""

\* A folder with a name outside the convention was created.
C12_Witness ==
    /\ last.op = "create_folder" /\ last.code = "OK" /\ ~last.dry
    /\ \E p \in last.touched : ~validate_folder_naming(PathName(p)).ok

(***************************************************************************)
(* Names                                                                   *)
(***************************************************************************)
\* The name has a path separator in it.
HasSeparator(name) == \E i \in 1..Len(name) : name[i] \in {"/", "\\"}

\* C13: rename_file with a new_name that contains '/' or '\' returns the
\* invalid-name error and renames nothing, in both dry-run states.
C13_SeparatorInNameIsRejected ==
    \A c \in RenameCalls, mode \in BOOLEAN :
        LET result == Apply([State EXCEPT !.dry_run = mode], c)
        IN  (HasSeparator(c.name) /\ is_file(fs, resolve(Path(c.path)))
                /\ Allowed(State, resolve(Path(c.path)))) =>
                /\ result.report.code = "InvalidName"
                /\ result.fs = fs

\* The longest name sanitize_filename is tried on.
MaxNameLen == 3

\* The characters of the names tried: a letter, the two that are stripped,
\* three of the illegal ones, and the underscore.
NameChars == {"g", " ", ".", "/", ":", "?", "_"}

RECURSIVE StringsUpTo(_)
\* The strings of at most n characters of NameChars.
StringsUpTo(n) ==
    IF n = 0 THEN {<<>>}
    ELSE LET shorter == StringsUpTo(n - 1)
         IN  shorter \cup {Append(t, ch) : t \in shorter, ch \in NameChars}

SanitizeInputs == StringsUpTo(MaxNameLen) \cup {n_messy, n_g_slash_q, n_g_backslash_q}

\* What the name is to be: each illegal character an underscore, then the part
\* from the first to the last character that is neither a space nor a dot,
\* 'unnamed' if there is none.
SanitizeReference(name) ==
    LET replaced == [i \in 1..Len(name) |->
                        IF name[i] \in {"<", ">", ":", "\"", "/", "\\", "|", "?", "*"}
                        THEN "_" ELSE name[i]]
        kept == {i \in 1..Len(name) : replaced[i] \notin {" ", "."}}
        first == CHOOSE i \in kept : \A j \in kept : i <= j
        final == CHOOSE i \in kept : \A j \in kept : j <= i
    IN  IF kept = {} THEN <<"u","n","n","a","m","e","d">>
        ELSE SubSeq(replaced, first, final)

\* sanitize_filename on every name tried.
SanitizeIsClean ==
    \A name \in SanitizeInputs :
        LET clean == sanitize_filename(name)
        IN  /\ clean # EmptyStr
            /\ \A i \in 1..Len(clean) : clean[i] \notin IllegalChars
            /\ clean[1] \notin {" ", "."}
            /\ clean[Len(clean)] \notin {" ", "."}
            /\ clean = SanitizeReference(name)

\* C14: sanitize_filename returns a non-empty name with every illegal
\* character of the input replaced by an underscore and no space or dot at
\* either end, 'unnamed' for an input that becomes empty; and the entry
\* rename_file has renamed bears that name.
C14_SanitizedNameIsApplied ==
    /\ SanitizeIsClean
    /\ \A c \in RenameCalls :
            LET result == Apply([State EXCEPT !.dry_run = FALSE], c)
                target == resolve(Path(c.path))
                new_path == Append(PathParent(target), SanitizeReference(c.name))
            IN  result.report.code = "OK" =>
                    /\ new_path \in DOMAIN result.fs
                    /\ new_path \notin DOMAIN fs
                    /\ target \notin DOMAIN result.fs
                    /\ result.fs[new_path] = fs[target]

\* A file was renamed with " .g:." asked for, and is now named "g_".
C14_Witness ==
    /\ last.op = "rename_file" /\ last.code = "OK"
    /\ \E p \in last.touched : p \in DOMAIN fs /\ PathName(p) = <<"g", "_">>
    /\ sanitize_filename(n_messy) = <<"g", "_">>

\* The longest folder name validate_folder_naming is tried on.
MaxFolderNameLen == 5

\* The characters of the folder names tried: two digits, the underscore, a
\* letter and a line break.
FolderNameChars == {"0", "9", "_", "g", "\n"}

RECURSIVE StringsOver(_, _)
\* The strings of at most n characters of chars.
StringsOver(chars, n) ==
    IF n = 0 THEN {<<>>}
    ELSE LET shorter == StringsOver(chars, n - 1)
         IN  shorter \cup {Append(t, ch) : t \in shorter, ch \in chars}

FolderNameInputs ==
    StringsOver(FolderNameChars, MaxFolderNameLen)
        \cup {<<d1, d2, "_", "g">> : d1 \in Digits, d2 \in Digits}

\* Two decimal digits, an underscore, and at least one further character.
TwoDigitsUnderscoreMore(name) ==
    /\ Len(name) >= 4
    /\ name[1] \in {"0", "1", "2", "3", "4", "5", "6", "7", "8", "9"}
    /\ name[2] \in {"0", "1", "2", "3", "4", "5", "6", "7", "8", "9"}
    /\ name[3] = "_"

\* C15: validate_folder_naming finds a name valid exactly when it is two
\* decimal digits, an underscore and at least one further character, with
\* every prefix from 00 to 99 accepted, and gives a message with every
\* invalid verdict; for the names tried and the names of the entries there are.
C15_ValidIffTwoDigitPrefix ==
    \A name \in FolderNameInputs \cup {PathName(p) : p \in DOMAIN fs \ {<<>>}} :
        LET naming == validate_folder_naming(name)
        IN  /\ naming.ok <=> TwoDigitsUnderscoreMore(name)
            /\ ~naming.ok => naming.message # ""

\* A successful create_folder of folder_path has made that directory in an
\* existing directory and changed nothing else.
OneNewDirectory(F, G, folder_path) ==
    /\ folder_path \notin DOMAIN F
    /\ DOMAIN G = DOMAIN F \cup {folder_path}
    /\ G[folder_path].kind = "dir"
    /\ is_dir(F, PathParent(folder_path))
    /\ \A e \in DOMAIN F : G[e] = F[e]

\* The claim as it stands: create_folder with a missing parent fails with the
\* parent-missing error, on an existing path with already-exists, nothing
\* created in either case; a success makes exactly one directory and changes
\* nothing else.
C16_CreateFolderFailsAsStated ==
    \A c \in CreateCalls :
        LET result == Apply([State EXCEPT !.dry_run = FALSE], c)
            folder_path == create_folder_path(c.path, c.name)
        IN  /\ ~exists(fs, PathParent(folder_path)) =>
                    /\ result.report.code = "ParentError"
                    /\ result.report.error = "NotFound"
                    /\ result.fs = fs
            /\ exists(fs, folder_path) =>
                    result.report.code = "AlreadyExists" /\ result.fs = fs
            /\ result.report.code = "OK" => OneNewDirectory(fs, result.fs, folder_path)

\* C16: create_folder creates at most one directory level. With a missing
\* parent, or on an existing path, it fails and creates nothing; when the
\* folder and its parent may be used (no forbidden component, inside the
\* root) the failure is the parent-missing error in the first case and
\* already-exists in the second. A success makes exactly one directory, in an
\* existing one, and changes nothing else.
C16_CreateFolderOneLevel ==
    \A c \in CreateCalls :
        LET result == Apply([State EXCEPT !.dry_run = FALSE], c)
            folder_path == create_folder_path(c.path, c.name)
            parent == PathParent(folder_path)
            usable == Allowed(State, parent) /\ Allowed(State, folder_path)
        IN  /\ ~exists(fs, parent) =>
                    /\ result.fs = fs
                    /\ result.report.code \in {"ParentError", "PathError"}
                    /\ usable => /\ result.report.code = "ParentError"
                                 /\ result.report.error = "NotFound"
            /\ exists(fs, folder_path) =>
                    /\ result.fs = fs
                    /\ result.report.code \in {"ParentError", "PathError", "AlreadyExists"}
                    /\ usable => result.report.code = "AlreadyExists"
            /\ result.report.code = "OK" => OneNewDirectory(fs, result.fs, folder_path)
            /\ Cardinality(DOMAIN result.fs \ DOMAIN fs) <= 1

\* create_folder has just refused to make again a folder that was made since
\* the start.
C16_Witness ==
    /\ last.op = "create_folder" /\ last.code = "AlreadyExists" /\ ~last.dry
    /\ <<n_w, n_g>> \in DOMAIN fs
    /\ fs[<<n_w, n_g>>].kind = "dir"

\* The files batch_rename_with_date is to rename in target: its direct
\* children that are regular files, not hidden, without six digits and an
\* underscore at the start of the name.
Selected(F, target) ==
    {p \in DOMAIN F :
        /\ Len(p) = Len(target) + 1 /\ SubSeq(p, 1, Len(target)) = target
        /\ F[p].kind = "file"
        /\ PathName(p)[1] # "."
        /\ ~(/\ Len(PathName(p)) >= 7
             /\ \A i \in 1..6 : PathName(p)[i] \in {"0","1","2","3","4","5","6","7","8","9"}
             /\ PathName(p)[7] = "_")}

\* p with YYMMDD_ of its date before its name.
Dated(F, p, use_modified) ==
    Append(SubSeq(p, 1, Len(p) - 1),
           (IF use_modified THEN F[p].mdate ELSE F[p].cdate) \o <<"_">> \o PathName(p))

\* C17: batch_rename_with_date on a directory, dry-run disabled, renames each
\* direct child that is a regular file, not hidden and not already starting
\* with six digits and an underscore, to YYMMDD_f of its modification date
\* (its creation date when use_modified is false), unless it reports the
\* rename as failed, and leaves every other entry as it was: the files with a
\* date prefix, the hidden files, the subfolders and what is in them.
C17_BatchRenamesSelectedOnly ==
    \A c \in BatchCalls :
        LET result == Apply([State EXCEPT !.dry_run = FALSE], c)
            target == resolve(Path(c.path))
        IN  (is_dir(fs, target) /\ Allowed(State, target)) =>
                /\ \A p \in Selected(fs, target) :
                        \/ /\ p \notin DOMAIN result.fs
                           /\ Dated(fs, p, c.flag) \in DOMAIN result.fs
                           /\ result.fs[Dated(fs, p, c.flag)] = fs[p]
                        \/ /\ result.report.code = "Done"
                           /\ \E e \in result.report.detail[4] : e[1] = PathName(p)
                           /\ p \in DOMAIN result.fs /\ result.fs[p] = fs[p]
                /\ \A p \in DOMAIN fs \ Selected(fs, target) :
                        p \in DOMAIN result.fs /\ result.fs[p] = fs[p]

\* The selected files of target that a batch run has renamed, and those it
\* has left as they were.
Renamed(F, G, target, use_modified) ==
    {p \in Selected(F, target) :
        /\ p \notin DOMAIN G
        /\ Dated(F, p, use_modified) \in DOMAIN G
        /\ G[Dated(F, p, use_modified)] = F[p]}

LeftInPlace(F, G, target) == {p \in Selected(F, target) : p \in DOMAIN G /\ G[p] = F[p]}

\* C18: in batch_rename_with_date with dry-run disabled a failed rename does
\* not end the batch: every selected file is either renamed or, its rename
\* having failed, left as it was; the reported successes are the files
\* renamed, the reported failures the files left, and the two counts add up to
\* the number of selected files.
C18_BatchAttemptsEveryCandidate ==
    \A c \in BatchCalls :
        LET result == Apply([State EXCEPT !.dry_run = FALSE], c)
            target == resolve(Path(c.path))
            renamed == Renamed(fs, result.fs, target, c.flag)
            left == LeftInPlace(fs, result.fs, target)
        IN  result.report.code = "Done" =>
                /\ renamed \cup left = Selected(fs, target)
                /\ renamed \cap left = {}
                /\ result.report.detail[2] = Cardinality(renamed)
                /\ result.report.detail[3] = Cardinality(left)
                /\ result.report.detail[2] + result.report.detail[3]
                        = Cardinality(Selected(fs, target))
                /\ {e[1] : e \in result.report.detail[4]} = {PathName(p) : p \in left}

\* A batch run has renamed a file of /w and left b, whose new name a folder has.
C18_Witness ==
    /\ last.op = "batch_rename_with_date" /\ last.code = "Done" /\ ~last.dry
    /\ last.touched # {}
    /\ is_file(fs, <<n_w, n_b>>)
    /\ is_dir(fs, <<n_w, n_dated_b>>)
    /\ ~is_file(fs, <<n_w, n_f>>)

\* The places in names of the names of regular files in directory target.
FoundAt(F, target, names) ==
    {i \in 1..Len(names) :
        LET file_path == resolve(target \o Parts(names[i]))
        IN  file_path \in DOMAIN F /\ F[file_path].kind = "file"}

\* The files found, and where a file is to lie in the folder.
FoundFiles(F, target, names) ==
    {resolve(target \o Parts(names[i])) : i \in FoundAt(F, target, names)}

InFolder(folder, p) == Append(folder, PathName(p))

\* C19: group_files_into_folder with dry-run disabled sorts the names given
\* into found (regular files of the directory) and missing, found + missing
\* being the number of names; the folder, if absent, is made; succeeded + failed
\* = found; the files that succeeded, as many as reported, lie in the folder
\* under their names; the files that failed, as many as reported, and the
\* entries of the missing names are where and as they were.
C19_GroupMovesFoundFiles ==
    \A c \in GroupCalls :
        LET result == Apply([State EXCEPT !.dry_run = FALSE], c)
            target == resolve(Path(c.path))
            folder == Append(target, SanitizeReference(c.name))
            found == FoundFiles(fs, target, c.names)
            nfound == Cardinality(FoundAt(fs, target, c.names))
            moved == {p \in found : /\ p \notin DOMAIN result.fs
                                    /\ InFolder(folder, p) \in DOMAIN result.fs
                                    /\ result.fs[InFolder(folder, p)] = fs[p]}
            left == {p \in found : p \in DOMAIN result.fs /\ result.fs[p] = fs[p]}
        IN  result.report.code = "Grouped" =>
                /\ nfound + Len(result.report.detail[6]) = Len(c.names)
                /\ exists(result.fs, folder)
                /\ ~exists(fs, folder) => is_dir(result.fs, folder)
                /\ result.report.detail[3] + result.report.detail[4] = nfound
                /\ moved \cup left = found
                /\ result.report.detail[3] = Cardinality(moved)
                /\ result.report.detail[4] = Cardinality(left)
                /\ \A p \in DOMAIN fs \ found : p \in DOMAIN result.fs /\ result.fs[p] = fs[p]

\* C20: every tool operation returns a report, whatever its arguments and the
\* filesystem: no call ends with an exception.
C20_EveryCallReturnsAReport ==
    /\ last.code # "Raised"
    /\ \A c \in MutatingCalls, mode \in BOOLEAN :
            Apply([State EXCEPT !.dry_run = mode], c).report.code # "Raised"

(***************************************************************************)
(* The root's lifecycle                                                    *)
(***************************************************************************)
\* C22: the root is unset at the start; only a configure_workspace that
\* reports success changes it, to a directory there is; a root once set is
\* neither replaced nor unset.
C22_RootIsSetOnce ==
    /\ env_root = EmptyStr
    /\ [][/\ env_root' # env_root =>
                /\ last'.op = "configure_workspace" /\ last'.code = "OK"
                /\ is_dir(fs, resolve(Path(env_root')))
          /\ (last'.op = "configure_workspace" /\ last'.code # "OK") =>
                env_root' = env_root
          /\ env_root # EmptyStr => env_root' = env_root]_vars

(***************************************************************************)
(* move_file's source and destination                                      *)
(***************************************************************************)
\* Where move_file is to put src for the destination dst: in dst under its
\* own name when dst is a directory, else at dst.
MoveTarget(F, src, dst) == IF is_dir(F, dst) THEN Append(dst, PathName(src)) ELSE dst

\* G is F with the file src at target and nothing else changed.
MovedTo(F, G, src, target) ==
    /\ DOMAIN G = (DOMAIN F \ {src}) \cup {target}
    /\ G[target] = F[src]
    /\ \A p \in DOMAIN F \ {src} : G[p] = F[p]

JudgedForbidden(path) == is_forbidden_path(resolve(Path(path))).is_forbidden

JudgedOutside(S, path) ==
    /\ get_target_root(S) # None
    /\ ~is_path_in_sandbox(resolve(Path(path)), get_target_root(S))

NothingReplaced(F, G) == \A p \in DOMAIN F \cap DOMAIN G : G[p] = F[p]

\* C25: rename_file and group_files_into_folder replace no entry. rename_file
\* to a name its directory has leaves everything as it is, with the
\* already-exists error when the entry may be renamed; a file that
\* group_files_into_folder finds while the folder has an entry of its name
\* stays where it is, as does that entry, and is reported as failed.
C25_NothingIsReplaced ==
    /\ \A c \in RenameCalls, mode \in BOOLEAN :
            LET S == [State EXCEPT !.dry_run = mode]
                result == Apply(S, c)
                target == resolve(Path(c.path))
                new_path == Append(PathParent(target), SanitizeReference(c.name))
            IN  /\ NothingReplaced(fs, result.fs)
                /\ (target \in DOMAIN fs /\ target # <<>> /\ new_path \in DOMAIN fs) =>
                        /\ result.fs = fs
                        /\ (Allowed(S, target) /\ Allowed(S, new_path)) =>
                                result.report.code = "AlreadyExists"
    /\ \A c \in GroupCalls :
            LET result == Apply([State EXCEPT !.dry_run = FALSE], c)
                target == resolve(Path(c.path))
                folder == Append(target, SanitizeReference(c.name))
                taken == {p \in FoundFiles(fs, target, c.names) :
                             InFolder(folder, p) \in DOMAIN fs}
            IN  /\ NothingReplaced(fs, result.fs)
                /\ \A p \in taken :
                        /\ p \in DOMAIN result.fs
                        /\ InFolder(folder, p) \in DOMAIN result.fs
                        /\ result.report.code = "Grouped" =>
                                \E i \in 1..Len(result.report.detail[5]) :
                                    result.report.detail[5][i]
                                        = <<PathName(p), "AlreadyExists">>
                /\ result.report.code = "Grouped" =>
                        result.report.detail[4] >= Cardinality(taken)

\* Grouping f and b of /w into the folder a, which has an f, has moved b and
\* left both files named f where they were.
C25_Witness ==
    /\ last.op = "group_files_into_folder" /\ last.code = "Grouped"
    /\ last.touched = {<<n_w, n_b>>, <<n_w, n_a, n_b>>}
    /\ is_file(fs, <<n_w, n_f>>) /\ is_file(fs, <<n_w, n_a, n_f>>)
    /\ fs[<<n_w, n_f>>] # fs[<<n_w, n_a, n_f>>]

(***************************************************************************)
(* The batch: files kept, plans kept, prefixes given once                  *)
(***************************************************************************)
\* The regular files directly in directory target.
FilesIn(F, target) ==
    {p \in DOMAIN F : p # <<>> /\ PathParent(p) = target /\ F[p].kind = "file"}

\* C26: batch_rename_with_date with dry-run disabled destroys no file: the
\* directory has as many regular files after the call as before, and a file
\* whose name is the new name computed for another is not overwritten.
C26_BatchDestroysNoFile ==
    \A c \in BatchCalls :
        LET result == Apply([State EXCEPT !.dry_run = FALSE], c)
            target == resolve(Path(c.path))
        IN  is_dir(fs, target) =>
                /\ Cardinality(FilesIn(result.fs, target)) = Cardinality(FilesIn(fs, target))
                /\ \A p \in Selected(fs, target) :
                        Dated(fs, p, c.flag) \in DOMAIN fs =>
                            result.fs[Dated(fs, p, c.flag)] = fs[Dated(fs, p, c.flag)]

\* The real run `real` of call c on F did what its dry-run plan `plan` lists
\* and reports no failed item.
CarriesOut(F, c, plan, real) ==
    CASE c.op = "move_file" ->
            /\ real.report.code = "OK"
            /\ MovedTo(F, real.fs, plan.detail[1], plan.detail[2])
      [] c.op \in {"rename_file", "rename_with_suggestion"} ->
            /\ real.report.code = "OK"
            /\ Append(plan.detail[4], plan.detail[2]) \notin DOMAIN real.fs
            /\ Append(plan.detail[4], plan.detail[3]) \in DOMAIN real.fs
      [] c.op = "create_folder" ->
            /\ real.report.code = "OK"
            /\ OneNewDirectory(F, real.fs, plan.detail[1])
      [] c.op = "batch_rename_with_date" ->
            /\ real.report.code = "Done"
            /\ real.report.detail[2] = plan.detail[3]
            /\ real.report.detail[3] = 0
            /\ \A change \in plan.detail[4] :
                    /\ Append(plan.detail[2], change[1]) \notin DOMAIN real.fs
                    /\ Append(plan.detail[2], change[2]) \in DOMAIN real.fs
      [] c.op = "group_files_into_folder" ->
            /\ real.report.code = "Grouped"
            /\ real.report.detail[3] = plan.detail[3]
            /\ real.report.detail[4] = 0
            /\ \A i \in 1..Len(plan.detail[4]) :
                    Append(plan.detail[1], plan.detail[4][i]) \in DOMAIN real.fs

\* C27: a call that returns an OK plan under dry-run, made with dry-run
\* disabled on the same filesystem, makes the changes of the plan and reports
\* no failed item.
C27_DryRunPlanPredicts ==
    \A c \in MutatingCalls :
        LET plan == Apply([State EXCEPT !.dry_run = TRUE], c).report
            real == Apply([State EXCEPT !.dry_run = FALSE], c)
        IN  plan.code = "DryRunOK" => CarriesOut(fs, c, plan, real)

\* C28: after a real batch run in which every rename succeeded, the same
\* directory holds no candidate: a second run, by either date, selects no file
\* and changes nothing.
C28_BatchIsIdempotent ==
    \A c \in BatchCalls, use_modified \in BOOLEAN :
        LET first == Apply([State EXCEPT !.dry_run = FALSE], c)
            after == [State EXCEPT !.dry_run = FALSE, !.fs = first.fs]
            second == batch_rename_with_date(after, c.path, use_modified)
        IN  (first.report.code = "Done" /\ first.report.detail[3] = 0) =>
                /\ first.report.detail[2] > 0
                /\ BatchChanges(first.fs, resolve(Path(c.path)), use_modified) = {}
                /\ second.report.code = "NothingToRename"
                /\ second.fs = first.fs

\* A batch run has renamed the one file of /w/a and no rename failed.
C28_Witness ==
    /\ last.op = "batch_rename_with_date" /\ last.code = "Done" /\ ~last.dry
    /\ last.touched = {<<n_w, n_a, n_f>>, <<n_w, n_a, n_dated_f>>}
    /\ is_file(fs, <<n_w, n_a, n_dated_f>>)
    /\ BatchChanges(fs, <<n_w, n_a>>, TRUE) = {}

\* New names that point elsewhere when joined to a directory: with a
\* separator, into the folder a, absolute, with '..', and of dots and spaces.
ElsewhereNames ==
    {n_g, n_g_slash_q, n_g_backslash_q, n_messy, n_dots,
     <<"a", "/", "g">>, <<"a", "\\", "g">>, <<"/", "w", "/", "g">>,
     <<".", ".", "/", "g">>, <<".", ".", "/", "w", "x", "/", "g">>,
     <<" ", ".", " ">>}

\* The file f, the folder a (which holds a file) and the folder w.
RenamedPaths == {PathStr(<<n_w, n_f>>), PathStr(<<n_w, n_a>>), PathStr(<<n_w>>)}

\* G is F with the entry at target, and all below it, now at renamed; every
\* other entry is where and what it was.
RenamedInPlace(F, G, target, renamed) ==
    LET now(p) == IF Under(p, target)
                  THEN renamed \o SubSeq(p, Len(target) + 1, Len(p)) ELSE p
    IN  /\ renamed # target
        /\ Len(renamed) = Len(target)
        /\ PathParent(renamed) = PathParent(target)
        /\ PathName(renamed) # DOTDOT
        /\ \A i \in 1..Len(PathName(renamed)) : PathName(renamed)[i] \notin {"/", "\\"}
        /\ DOMAIN G = {now(p) : p \in DOMAIN F}
        /\ \A p \in DOMAIN F : G[now(p)] = F[p]

\* C29: whatever the new name, a rename by rename_file or
\* rename_with_suggestion that succeeds leaves the entry in its parent
\* directory under another name, with every other entry unchanged; one that
\* does not succeed changes nothing.
C29_RenameStaysInDirectory ==
    \A path \in RenamedPaths, new_name \in ElsewhereNames, mode \in BOOLEAN :
        LET S == [State EXCEPT !.dry_run = mode]
            target == resolve(Path(path))
            results == {rename_file(S, path, new_name),
                        rename_with_suggestion(S, path, new_name, TRUE),
                        rename_with_suggestion(S, path, new_name, FALSE)}
        IN  \A result \in results :
                IF result.report.code = "OK"
                THEN \E renamed \in DOMAIN result.fs \ DOMAIN fs :
                        RenamedInPlace(fs, result.fs, target, renamed)
                ELSE result.fs = fs

\* rename_file was given "g/q" for /w/f, and the file is now /w/g_q.
C29_Witness ==
    /\ last.op = "rename_file" /\ last.code = "OK"
    /\ last.touched = {<<n_w, n_f>>, <<n_w, <<"g", "_", "q">>>>}
    /\ is_file(fs, <<n_w, <<"g", "_", "q">>>>)

\* C21: when another process changes the filesystem while a call of
\* move_file, rename_file, create_folder, batch_rename_with_date or
\* group_files_into_folder is in progress, at whatever step, the call returns a
\* report: it never ends with an exception.
C21_ExternalChangeIsReported ==
    (run.pc = "done" /\ run.external > 0) => run.report.code # "Raised"

\* C30: a call reads config.dry_run once at most, after its checks and before
\* any change it makes.  Having read TRUE it changes nothing and returns its
\* plan; having read FALSE it hands every item it set out to change to the
\* operating system, whatever set_dry_run calls complete meanwhile.  A call
\* begun with the flag set by a completed set_dry_run(true), and with no
\* set_dry_run(false) completing after that, changes nothing.
C30_FlagIsReadOnce ==
    /\ run.reads <= 1
    /\ run.pc \in {"checks", "scan", "gate"} => run.reads = 0 /\ run.mutated = 0
    /\ run.pc \in {"exec", "make", "items"} => run.reads = 1 /\ ~run.simulated
    /\ run.mutated > 0 => run.reads = 1 /\ ~run.simulated
    /\ run.attempted > 0 => run.reads = 1 /\ ~run.simulated
    /\ run.simulated =>
            /\ run.pc = "done" /\ run.report.code = "DryRunOK"
            /\ run.mutated = 0 /\ run.attempted = 0
    /\ (run.pc = "done" /\ run.reads = 1 /\ ~run.simulated) =>
            /\ run.report.code # "DryRunOK"
            /\ run.report.code \in {"OK", "Done", "Grouped", "MoveError", "RenameError",
                                    "CreateError"} =>
                    /\ run.attempted = run.planned
                    /\ run.success + run.failed = run.planned
    /\ (run.enabled_at_start /\ ~run.disabled_since) => run.mutated = 0

\* A batch read the flag as FALSE, a set_dry_run(true) completed before its
\* last rename, and it renamed what it had listed all the same.
C30_Witness ==
    /\ run.pc = "done" /\ run.call.op = "batch_rename_with_date"
    /\ run.report.code = "Done"
    /\ run.enabled_late /\ dry_run
    /\ run.planned = 2 /\ run.attempted = 2 /\ run.mutated >= 1

=============================================================================
